---------------------------- MODULE Spec2Model ----------------------------
(***************************************************************************)
(* Project Lifecycle Manager of the Supabase project generator             *)
(* (src/src/core/main.py, class SupabaseProjectGenerator).                 *)
(*                                                                         *)
(* State: the projects root on disk (one directory per project holding     *)
(* supabase_config.json, docker-compose.yml and kong.yml), the host        *)
(* environment the code probes (occupied TCP ports, installed compose      *)
(* dialects) and a record of the most recent call and what it returned.    *)
(*                                                                         *)
(* Texts (stdout, stderr, messages) are sequences of lines: '' is <<>>,    *)
(* and '\n'.join(filter(None, [a, b])) is a \o b.                          *)
(***************************************************************************)
EXTENDS Integers, Sequences, FiniteSets, TLC

VARIABLES
    fs,         \* projects root: name -> [dir, config, compose, kong]
    occupied,   \* host ports on which a bind fails, as ranges <<lo, hi>>
    installed,  \* executables shutil.which finds: subset of Dialects
    logs,       \* SpecLog: ProjectLogger.logs of the generator, in order
    last,       \* the most recent call or event and its outcome
    lastAlloc,  \* SpecPorts: outcome of the last find_available_ports call
    lastRun,    \* SpecBridge: trace and result of the last _run_compose call
    pc,         \* SpecRace: position of each concurrent create call
    req,        \* SpecRace: arguments of each concurrent create call
    loc         \* SpecRace: local variables of each concurrent create call

vars == <<fs, occupied, installed, logs, last, lastAlloc, lastRun, pc, req, loc>>

---------------------------------------------------------------------------
(* Inputs the operations are driven with *)

Names == {"alpha", "beta"}

ValidMachineSizes == {"small", "medium", "large", "xlarge"}

\* sizes asked for: a valid one and one outside the enumeration
SizeInputs == {"small", "huge"}

\* sizes asked for by concurrent creates: two valid sizes tell the configs of
\* two calls for one name apart
RaceSizeInputs == {"small", "large", "huge"}

\* the name the concurrent callers of SpecRace contend for
RaceNames == {"alpha"}

---------------------------------------------------------------------------
(* Port allocation: check_port_availability, find_available_ports *)

\* (mutant) the nine backend services, without the studio
ServiceOrderWithoutStudio ==
    <<"kong", "auth", "rest", "realtime",
      "storage", "meta", "functions", "analytics", "vector">>

ServiceOrder ==
    <<"studio", "kong", "auth", "rest", "realtime",
      "storage", "meta", "functions", "analytics", "vector">>

Services == {ServiceOrder[i] : i \in 1..Len(ServiceOrder)}

BasePorts ==
    [s \in Services |->
        CASE s = "studio"    -> 3000
          [] s = "kong"      -> 8000
          [] s = "auth"      -> 9999
          [] s = "rest"      -> 3001
          [] s = "realtime"  -> 4000
          [] s = "storage"   -> 5000
          [] s = "meta"      -> 8080
          [] s = "functions" -> 54321
          [] s = "analytics" -> 4001
          [] s = "vector"    -> 9001]

ProbeLimit == 100

Exhausted == -1

NoPorts == [s \in {} |-> 0]

\* The occupied host ports are kept as a set of closed ranges <<lo, hi>>.
Held(port, occ) == \E r \in occ : r[1] <= port /\ port <= r[2]

\* bind(('', port)) succeeds iff nothing holds the port
check_port_availability(port, occ) == ~Held(port, occ)

\* (mutant) the probe gives up one port early: >= for >
RECURSIVE ProbeFromShort(_, _, _)
ProbeFromShort(port, base_port, occ) ==
    IF check_port_availability(port, occ)
    THEN port
    ELSE IF port + 1 >= base_port + ProbeLimit
         THEN Exhausted
         ELSE ProbeFromShort(port + 1, base_port, occ)

\* the while loop of find_available_ports for one service, entered with
\* `port`: Exhausted stands for the raise
RECURSIVE ProbeFrom(_, _, _)
ProbeFrom(port, base_port, occ) ==
    IF check_port_availability(port, occ)
    THEN port
    ELSE IF port + 1 > base_port + ProbeLimit
         THEN Exhausted
         ELSE ProbeFrom(port + 1, base_port, occ)

\* (mutant) the probe of a service also skips the ports already given to
\* the services before it
ProbeServiceSkippingTaken(service, base_ports, occ, available_ports) ==
    ProbeFrom(base_ports[service], base_ports[service],
              occ \cup {<<available_ports[t], available_ports[t]>> :
                            t \in DOMAIN available_ports})

\* the body of the for loop for one service: port = base_port, then the
\* while loop; the ports found so far (available_ports) are not read
ProbeService(service, base_ports, occ, available_ports) ==
    ProbeFrom(base_ports[service], base_ports[service], occ)

\* (mutant) on exhaustion the ports found so far are returned instead of
\* raising
RECURSIVE AllocFromKeepingPartial(_, _, _, _)
AllocFromKeepingPartial(i, base_ports, occ, available_ports) ==
    IF i > Len(ServiceOrder)
    THEN [raised |-> FALSE, service |-> "", ports |-> available_ports]
    ELSE LET service == ServiceOrder[i]
             port    == ProbeService(service, base_ports, occ, available_ports)
         IN  IF port = Exhausted
             THEN [raised |-> FALSE, service |-> service, ports |-> available_ports]
             ELSE AllocFromKeepingPartial(i + 1, base_ports, occ,
                                         available_ports @@ (service :> port))

\* the for loop over base_ports.items(), from the i-th service on
RECURSIVE AllocFrom(_, _, _, _)
AllocFrom(i, base_ports, occ, available_ports) ==
    IF i > Len(ServiceOrder)
    THEN [raised |-> FALSE, service |-> "", ports |-> available_ports]
    ELSE LET service == ServiceOrder[i]
             port    == ProbeService(service, base_ports, occ, available_ports)
         IN  IF port = Exhausted
             THEN [raised |-> TRUE, service |-> service, ports |-> NoPorts]
             ELSE AllocFrom(i + 1, base_ports, occ,
                            available_ports @@ (service :> port))

find_available_ports(base_ports, occ) == AllocFrom(1, base_ports, occ, NoPorts)

---------------------------------------------------------------------------
(* Runtime bridge: _run_compose *)

Primary == "docker"
Legacy  == "docker-compose"

Dialects == {Primary, Legacy}

\* the command line of each dialect for a list of compose arguments
Command(dialect, args) ==
    IF dialect = Primary THEN <<"docker", "compose">> \o args
                         ELSE <<"docker-compose">> \o args

ArgsPull        == <<"pull">>
ArgsUp          == <<"up", "-d">>
ArgsDown        == <<"down">>
ArgsDownCleanup == <<"down", "-v", "--remove-orphans">>

NotFoundMsg == <<"docker/docker-compose not found">>

StdoutOf(dialect) ==
    IF dialect = Primary THEN <<"stdout of docker compose">>
                         ELSE <<"stdout of docker-compose">>

StderrOf(dialect) ==
    IF dialect = Primary THEN <<"stderr of docker compose">>
                         ELSE <<"stderr of docker-compose">>

ExcOf(dialect) ==
    IF dialect = Primary THEN <<"[Errno 13] Permission denied: 'docker'">>
                         ELSE <<"[Errno 13] Permission denied: 'docker-compose'">>

\* What subprocess.run can do with an installed dialect's command: complete
\* with some exit code and captured streams, or raise.  The streams are
\* whatever the external program prints.
Behaviours(dialect) ==
    { [raises |-> FALSE, returncode |-> 0, stdout |-> StdoutOf(dialect),
       stderr |-> <<>>, exc |-> <<>>],
      [raises |-> FALSE, returncode |-> 2, stdout |-> StdoutOf(dialect),
       stderr |-> StderrOf(dialect), exc |-> <<>>],
      [raises |-> FALSE, returncode |-> 1, stdout |-> <<>>,
       stderr |-> NotFoundMsg, exc |-> <<>>],
      [raises |-> TRUE, returncode |-> 0, stdout |-> <<>>,
       stderr |-> <<>>, exc |-> ExcOf(dialect)] }

\* commands = [] ; append primary if which('docker') ; append legacy if
\* which('docker-compose')
CommandList(inst) ==
    (IF Primary \in inst THEN <<Primary>> ELSE <<>>) \o
    (IF Legacy  \in inst THEN <<Legacy>>  ELSE <<>>)

\* one pass of `for cmd in commands`, from the i-th command on; beh gives
\* what subprocess.run does for each dialect; tried lists the
\* dialects whose command was run so far
RECURSIVE ComposeLoop(_, _, _, _, _, _, _)
ComposeLoop(i, commands, beh, last_rc, last_out, last_err, tried) ==
    IF i > Len(commands)
    THEN [rc |-> last_rc, out |-> last_out, err |-> last_err, tried |-> tried]
    ELSE LET d   == commands[i]
             res == beh[d]
             now == Append(tried, d)
         IN  IF res.raises
             THEN ComposeLoop(i + 1, commands, beh, 1, last_out, res.exc, now)
             ELSE IF res.returncode = 0
                  THEN [rc |-> 0, out |-> res.stdout, err |-> res.stderr,
                        tried |-> now]
                  ELSE ComposeLoop(i + 1, commands, beh, res.returncode,
                                   res.stdout, res.stderr, now)

\* _run_compose(cwd, args) on a host with `inst` installed
run_compose(inst, beh) ==
    LET commands == CommandList(inst)
    IN  IF commands = <<>>
        THEN [rc |-> 1, out |-> <<>>, err |-> NotFoundMsg, tried |-> <<>>]
        ELSE ComposeLoop(1, commands, beh, 1, <<>>, <<>>, <<>>)

\* what subprocess.run does for the command of each dialect during one call
BehaviourMaps ==
    {beh \in [Dialects -> UNION {Behaviours(d) : d \in Dialects}] :
        \A d \in Dialects : beh[d] \in Behaviours(d)}

\* every (result, trace) a _run_compose call can produce, per set of
\* installed dialects
RunResultsOn ==
    {[inst |-> inst, runs |-> {run_compose(inst, beh) : beh \in BehaviourMaps}] :
        inst \in SUBSET Dialects}

RunResults(inst) == (CHOOSE e \in RunResultsOn : e.inst = inst).runs

\* A caller that discards the streams _run_compose returns (the pull of
\* start, the stop inside delete, the start inside create) can be affected
\* only through the commands that ran and whether the call succeeded: one
\* run per distinct (trace, rc == 0).
RunTracesOn ==
    {[inst |-> inst,
      runs |-> {CHOOSE r \in RunResults(inst) : r.tried = k[1] /\ (r.rc = 0) = k[2] :
                    k \in {<<r.tried, r.rc = 0>> : r \in RunResults(inst)}}] :
        inst \in SUBSET Dialects}

RunTraces(inst) == (CHOOSE e \in RunTracesOn : e.inst = inst).runs

\* the command lines a _run_compose call ran, in order
Invocations(run, args) ==
    [i \in 1..Len(run.tried) |-> Command(run.tried[i], args)]

\* one _run_compose call as its caller sees it: the arguments passed, the
\* exit code returned and the dialects whose command ran
RunRecord(args, run) == [args |-> args, rc |-> run.rc, tried |-> run.tried]

---------------------------------------------------------------------------
(* The projects root on disk *)

NoFile == <<>>

\* a project directory: supabase_config.json, docker-compose.yml, kong.yml
\* and the start_local.sh the web front end adds
NoProject ==
    [dir |-> FALSE, config |-> NoFile, compose |-> NoFile, kong |-> NoFile,
     script |-> NoFile]

EmptyRoot == [n \in Names |-> NoProject]

\* os.path.join(projects_dir, project_name) is not checked to stay on a
\* project: with the empty name it is the projects root itself, and a name
\* with a parent component leads through one directory to another
RootPath      == ""
TraversalPath == "alpha/../beta"

\* the directories a path leads through, which have to exist
Traversed(name) == IF name = TraversalPath THEN {"alpha"} ELSE {}

\* the directory under the root that the path ends at
Resolved(name) == IF name = TraversalPath THEN "beta" ELSE name

\* os.path.exists(os.path.join(projects_dir, project_name)); the root is
\* there once a project directory was made in it
PathExists(root, name) ==
    IF name = RootPath
    THEN \E n \in DOMAIN root : root[n].dir
    ELSE /\ \A t \in Traversed(name) : root[t].dir
         /\ root[Resolved(name)].dir

\* os.path.exists(os.path.join(project_path, 'docker-compose.yml'))
ComposeExists(root, name) ==
    /\ name # RootPath
    /\ PathExists(root, name)
    /\ root[Resolved(name)].compose # NoFile

\* os.makedirs(project_path, exist_ok=True)
MakeDirs(root, name) == [root EXCEPT ![name].dir = TRUE]

\* shutil.rmtree(project_path): the directory and all it holds
RemoveTree(root, name) ==
    IF name = RootPath
    THEN [n \in DOMAIN root |-> NoProject]
    ELSE [root EXCEPT ![Resolved(name)] = NoProject]

\* open(path, 'w') raises when the directory is gone or the host refuses the
\* write (fault); otherwise the file holds exactly `content`
CanWrite(root, name, fault) == root[name].dir /\ ~fault

WriteConfigFile(root, name, content) == [root EXCEPT ![name].config = <<content>>]

WriteComposeFile(root, name, content) == [root EXCEPT ![name].compose = <<content>>]

WriteKongFile(root, name, content) == [root EXCEPT ![name].kong = <<content>>]

WriteScriptFile(root, name, content) == [root EXCEPT ![name].script = <<content>>]

\* the names os.listdir(projects_dir) yields that are directories
ListDirs(root) == {n \in Names : root[n].dir}

\* the names in the order sorted() puts them
NameOrder == <<"alpha", "beta">>

\* the orders os.listdir may yield the entries in (arbitrary)
ListdirOrders ==
    {q \in [1..Cardinality(Names) -> Names] :
        \A i, j \in 1..Cardinality(Names) : i # j => q[i] # q[j]}

IsListedDir(root, n) == root[n].dir

HasConfig(root, n) == root[n].dir /\ root[n].config # NoFile

\* the CLI's list: every subdirectory of the projects root, sorted; one
\* without a config is shown as "(no config)"
cli_list_projects(root) ==
    LET IsDir(n) == IsListedDir(root, n)
    IN  SelectSeq(NameOrder, IsDir)

\* the web front end's list: in listdir order, the subdirectories that hold
\* a supabase_config.json
web_list_projects(root, order) ==
    LET Shown(n) == IsListedDir(root, n) /\ HasConfig(root, n)
    IN  SelectSeq(order, Shown)

---------------------------------------------------------------------------
(* Generated artifacts: the config dict, create_docker_compose, create_kong_config *)

\* an image reference repository:tag
Image(repo, tag) == [repo |-> repo, tag |-> tag]

CurrentAuthImage    == Image("supabase/gotrue", "v2")
DeprecatedAuthImage == Image("supabase/gotrue", "latest")

\* secrets.token_urlsafe(16): 16 random bytes as unpadded URL-safe base64,
\* four characters for every three bytes
TokenBytes == 16
TokenLen   == (TokenBytes * 8 + 5) \div 6

\* [:20]
RefLen == 20

\* positions of a token where the model lets one of the two URL-safe
\* symbols fall
SymbolPositions == {1, 2, 10, 21}

\* the last character of a 16-byte token encodes two bits, so it is one of
\* A, Q, g, w; every other position holds any character of the alphabet
FinalChars == {"A", "Q", "g", "w"}

TokenOf(symbolAt, fill, final) ==
    [i \in 1..TokenLen |->
        IF i = TokenLen THEN final
        ELSE IF i \in symbolAt THEN (IF i % 2 = 1 THEN "-" ELSE "_")
        ELSE fill]

\* the values secrets.token_urlsafe(16) may return
RefTokens ==
    {TokenOf(symbolAt, fill, final) : symbolAt \in SUBSET SymbolPositions,
                                      fill \in {"A", "b", "7"},
                                      final \in FinalChars}

\* str.lower()
LowerChar(c) ==
    CASE c = "A" -> "a"
      [] c = "Q" -> "q"
      [] OTHER   -> c

Lower(text) == [i \in DOMAIN text |-> LowerChar(text[i])]

\* str.replace(ch, '')
Strip(text, ch) == SelectSeq(text, LAMBDA c : c # ch)

\* text[:n]
Truncate(text, n) == SubSeq(text, 1, IF Len(text) < n THEN Len(text) ELSE n)

\* secrets.token_urlsafe(16).lower().replace('_', '').replace('-', '')[:20]
project_ref_of(token) == Truncate(Strip(Strip(Lower(token), "_"), "-"), RefLen)

\* the values secrets.token_urlsafe(48) may return for the signing secret of
\* generate_jwt_keys
Secrets == {"secret-1", "secret-2"}

\* int(datetime.now().timestamp())
Clock == {1700000000, 1700000060}

\* 365 * 24 * 60 * 60 * 10
TenYears == 365 * 24 * 60 * 60 * 10

\* jwt.encode(payload, key, algorithm="HS256"): the payload in clear and a
\* signature that binds it to the key
jwt_encode(payload, key) ==
    [alg |-> "HS256", payload |-> payload, signature |-> <<payload, key>>]

TokenPayload(project_ref, role, current_time) ==
    [iss  |-> "supabase",
     ref  |-> project_ref,
     role |-> role,
     iat  |-> current_time,
     exp  |-> current_time + TenYears]

\* (mutant) the reference passed in is ignored and a fresh one is drawn
generate_jwt_keysFreshRef(project_ref, secret_key, own_token, current_time) ==
    LET ref == project_ref_of(own_token)
    IN  [anon_key    |-> jwt_encode(TokenPayload(ref, "anon", current_time),
                                    secret_key),
         service_key |-> jwt_encode(TokenPayload(ref, "service_role",
                                                 current_time), secret_key),
         jwt_secret  |-> secret_key]

\* generate_jwt_keys(project_ref); secret_key, own_token and current_time
\* are what the two draws and the clock give the call
generate_jwt_keys(project_ref, secret_key, own_token, current_time) ==
    LET ref == IF project_ref = <<>> THEN project_ref_of(own_token)
               ELSE project_ref
    IN  [anon_key    |-> jwt_encode(TokenPayload(ref, "anon", current_time),
                                    secret_key),
         service_key |-> jwt_encode(TokenPayload(ref, "service_role",
                                                 current_time), secret_key),
         jwt_secret  |-> secret_key]

\* the token generate_jwt_keys draws when it is passed no reference
OwnToken == TokenOf({}, "7", "w")

\* what one create call draws and reads: the token behind its project
\* reference, its signing secret and the clock
Draw(token, secret, now) ==
    [token |-> token, own |-> OwnToken, secret |-> secret, now |-> now]

\* the credentials of create_project: project_ref, then
\* anon_key, service_key, jwt_secret = self.generate_jwt_keys(project_ref)
IssueCredentials(draw) ==
    LET project_ref == project_ref_of(draw.token)
    IN  [project_ref |-> project_ref]
        @@ generate_jwt_keys(project_ref, draw.secret, draw.own, draw.now)

\* (mutant) the database settings of a local server
LocalDb ==
    [db_host |-> "localhost", db_port |-> "5432", db_user |-> "postgres",
     db_password |-> "your_password"]

\* the defaults of create_project's database parameters
DefaultDb ==
    [db_host |-> "192.168.1.43", db_port |-> "5432", db_user |-> "postgres",
     db_password |-> "your_password"]

\* db_config of create_project: the database settings, nested in one dict
DbConfig(db, project_name) ==
    [host |-> db.db_host, port |-> db.db_port, user |-> db.db_user,
     password |-> db.db_password, database |-> project_name]

\* config.get(key): the value in a one-element sequence, <<>> for None
Get(config, key) == IF key \in DOMAIN config THEN <<config[key]>> ELSE <<>>

\* the config dict of create_project (the fields the model follows)
MakeConfig(project_name, machine_size, available_ports, creds) ==
    [project_name |-> project_name,
     project_ref  |-> creds.project_ref,
     machine_size |-> machine_size,
     db_config    |-> DbConfig(DefaultDb, project_name),
     anon_key     |-> creds.anon_key,
     service_key  |-> creds.service_key,
     jwt_secret   |-> creds.jwt_secret,
     ports        |-> available_ports]

\* (mutant) the auth service is on the latest tag as well
ComposeImagesAllLatest ==
    <<Image("supabase/studio", "latest"), Image("kong", "latest"),
      Image("supabase/gotrue", "latest"),
      Image("postgrest/postgrest", "latest"),
      Image("supabase/realtime", "latest"),
      Image("supabase/storage-api", "latest"),
      Image("supabase/postgres-meta", "latest"),
      Image("supabase/edge-runtime", "latest"),
      Image("supabase/logflare", "latest"), Image("timberio/vector", "latest")>>

\* the image: line of every service block, in the order of the file
ComposeImages ==
    <<Image("supabase/studio", "latest"), Image("kong", "latest"),
      CurrentAuthImage,
      Image("postgrest/postgrest", "latest"),
      Image("supabase/realtime", "latest"),
      Image("supabase/storage-api", "latest"),
      Image("supabase/postgres-meta", "latest"),
      Image("supabase/edge-runtime", "latest"),
      Image("supabase/logflare", "latest"), Image("timberio/vector", "latest")>>

\* the service blocks that hold a healthcheck: section
HealthChecked ==
    {"kong", "auth", "rest", "realtime", "storage", "meta", "functions",
     "analytics"}

\* (mutant) the ports are taken from the generator's latest allocation
\* instead of the config
RenderComposeFromLastAllocation(project_name, config) ==
    [host_ports  |-> lastAlloc.ports,
     database    |-> project_name,
     anon_key    |-> config.anon_key,
     service_key |-> config.service_key,
     jwt_secret  |-> config.jwt_secret,
     images      |-> ComposeImages,
     healthcheck |-> HealthChecked]

\* the text of docker-compose.yml, create_docker_compose(project_path,
\* project_name, config): the host port of every service block, the database
\* named in the DSNs, the keys and the JWT secret in the services'
\* environment and the images
RenderCompose(project_name, config) ==
    [host_ports  |-> config.ports,
     database    |-> project_name,
     anon_key    |-> config.anon_key,
     service_key |-> config.service_key,
     jwt_secret  |-> config.jwt_secret,
     images      |-> ComposeImages,
     healthcheck |-> HealthChecked]

\* the url: of a service of kong.yml, http://host:port/path
Url(host, port, path) == [host |-> host, port |-> port, path |-> path]

RoutePaths ==
    {"/auth/v1/*", "/rest/v1/*", "/realtime/v1/*", "/storage/v1/*",
     "/functions/v1/*"}

\* (mutant) the upstream of /rest/v1/* goes through the port allocated to
\* the gateway
RenderKongThroughGateway(config) ==
    [p \in RoutePaths |->
        CASE p = "/auth/v1/*"      -> Url("auth", 9999, "/verify")
          [] p = "/rest/v1/*"      -> Url("kong", config.ports["kong"], "/")
          [] p = "/realtime/v1/*"  -> Url("realtime", 4000, "/socket/")
          [] p = "/storage/v1/*"   -> Url("storage", 5000, "/")
          [] p = "/functions/v1/*" -> Url("functions", 8081, "/")]

\* the text of kong.yml: each route's path prefix mapped to its upstream
RenderKong(config) ==
    [p \in RoutePaths |->
        CASE p = "/auth/v1/*"      -> Url("auth", 9999, "/verify")
          [] p = "/rest/v1/*"      -> Url("rest", 3000, "/")
          [] p = "/realtime/v1/*"  -> Url("realtime", 4000, "/socket/")
          [] p = "/storage/v1/*"   -> Url("storage", 5000, "/")
          [] p = "/functions/v1/*" -> Url("functions", 8081, "/")]

\* 'supabase/gotrue:latest' in compose_text
ReferencesDeprecated(text) ==
    \E i \in DOMAIN text.images : text.images[i] = DeprecatedAuthImage

\* compose_text.replace('supabase/gotrue:latest', 'supabase/gotrue:v2')
MigrateCompose(text) ==
    [text EXCEPT !.images =
        [i \in DOMAIN @ |-> IF @[i] = DeprecatedAuthImage
                            THEN CurrentAuthImage ELSE @[i]]]

---------------------------------------------------------------------------
(* Lifecycle operations as functions of the disk, the host and what the
   external commands do; each yields the new disk and what is returned *)

PathNotFoundMsg == <<"Project path not found">>
NoComposeMsg    == <<"docker-compose.yml not found">>
RemovedMsg      == <<"project directory removed">>
RemoveFailedMsg == <<"failed to remove project directory">>
\* the message of delete_project's outer `except Exception`
ErrorDeletingMsg == <<"Error deleting project">>

Returned(root, found, success, out, err, calls, runs) ==
    [fs |-> root, found |-> found, success |-> success,
     out |-> out, err |-> err, calls |-> calls, runs |-> runs]

\* the auto-migration of start_project: the compose file is written again
\* when it holds the old tag; `fails` is an exception raised while the file
\* is read or opened for writing, which `except Exception: pass` swallows
AutoMigrate(root, name, fails) ==
    IF fails \/ ~ReferencesDeprecated(root[name].compose[1])
    THEN root
    ELSE [root EXCEPT ![name].compose = <<MigrateCompose(@[1])>>]

\* (mutant) start saves the config again, with its ports map emptied
start_projectRewritingConfig(root, name, fails, pull, up) ==
    IF ~PathExists(root, name)
    THEN Returned(root, FALSE, FALSE, <<>>, PathNotFoundMsg, <<>>, <<>>)
    ELSE IF ~ComposeExists(root, name)
    THEN Returned(root, TRUE, FALSE, <<>>, NoComposeMsg, <<>>, <<>>)
    ELSE LET migrated ==
                 [AutoMigrate(root, name, fails) EXCEPT
                              ![name].config  =
                                  IF @ = NoFile THEN @
                                  ELSE <<[@[1] EXCEPT !.ports = NoPorts]>>]
         IN  Returned(migrated, TRUE, up.rc = 0, up.out, up.err,
                      Invocations(pull, ArgsPull) \o Invocations(up, ArgsUp),
                      <<RunRecord(ArgsPull, pull), RunRecord(ArgsUp, up)>>)

\* (mutant) a failed pull makes start fail
start_projectPullMatters(root, name, fails, pull, up) ==
    IF ~PathExists(root, name)
    THEN Returned(root, FALSE, FALSE, <<>>, PathNotFoundMsg, <<>>, <<>>)
    ELSE IF ~ComposeExists(root, name)
    THEN Returned(root, TRUE, FALSE, <<>>, NoComposeMsg, <<>>, <<>>)
    ELSE LET migrated == AutoMigrate(root, name, fails)
         IN  Returned(migrated, TRUE, pull.rc = 0 /\ up.rc = 0, up.out, up.err,
                      Invocations(pull, ArgsPull) \o Invocations(up, ArgsUp),
                      <<RunRecord(ArgsPull, pull), RunRecord(ArgsUp, up)>>)

\* start_project(project_name); fails is whether the auto-migration raises,
\* pull and up are what the two _run_compose
\* calls produce
start_project(root, name, fails, pull, up) ==
    IF ~PathExists(root, name)
    THEN Returned(root, FALSE, FALSE, <<>>, PathNotFoundMsg, <<>>, <<>>)
    ELSE IF ~ComposeExists(root, name)
    THEN Returned(root, TRUE, FALSE, <<>>, NoComposeMsg, <<>>, <<>>)
    ELSE LET migrated == AutoMigrate(root, name, fails)
         IN  Returned(migrated, TRUE, up.rc = 0, up.out, up.err,
                      Invocations(pull, ArgsPull) \o Invocations(up, ArgsUp),
                      <<RunRecord(ArgsPull, pull), RunRecord(ArgsUp, up)>>)

\* (mutant) stop goes straight to the compose file, without the check of
\* the project path
stop_projectUnchecked(root, name, down) ==
    IF ~ComposeExists(root, name)
    THEN Returned(root, PathExists(root, name), FALSE, <<>>, NoComposeMsg, <<>>, <<>>)
    ELSE Returned(root, TRUE, down.rc = 0, down.out, down.err,
                  Invocations(down, ArgsDown), <<RunRecord(ArgsDown, down)>>)

\* (mutant) stop reports success whatever `down` exited with
stop_projectIgnoringExit(root, name, down) ==
    IF ~PathExists(root, name)
    THEN Returned(root, FALSE, FALSE, <<>>, PathNotFoundMsg, <<>>, <<>>)
    ELSE IF ~ComposeExists(root, name)
    THEN Returned(root, TRUE, FALSE, <<>>, NoComposeMsg, <<>>, <<>>)
    ELSE Returned(root, TRUE, TRUE, down.out, down.err,
                  Invocations(down, ArgsDown), <<RunRecord(ArgsDown, down)>>)

\* (mutant) a stop that succeeds removes the routing file
stop_projectDroppingRouting(root, name, down) ==
    IF ~PathExists(root, name)
    THEN Returned(root, FALSE, FALSE, <<>>, PathNotFoundMsg, <<>>, <<>>)
    ELSE IF ~ComposeExists(root, name)
    THEN Returned(root, TRUE, FALSE, <<>>, NoComposeMsg, <<>>, <<>>)
    ELSE Returned(IF down.rc = 0 THEN [root EXCEPT ![name].kong = NoFile]
                  ELSE root,
                  TRUE, down.rc = 0, down.out, down.err,
                  Invocations(down, ArgsDown), <<RunRecord(ArgsDown, down)>>)

\* stop_project(project_name); down is what the _run_compose call produces
stop_project(root, name, down) ==
    IF ~PathExists(root, name)
    THEN Returned(root, FALSE, FALSE, <<>>, PathNotFoundMsg, <<>>, <<>>)
    ELSE IF ~ComposeExists(root, name)
    THEN Returned(root, TRUE, FALSE, <<>>, NoComposeMsg, <<>>, <<>>)
    ELSE Returned(root, TRUE, down.rc = 0, down.out, down.err,
                  Invocations(down, ArgsDown), <<RunRecord(ArgsDown, down)>>)

\* (mutant) the directory is removed only when `down -v` exited zero
delete_projectUnlessDownFails(root, name, down, cleanup, rmFails) ==
    IF ~PathExists(root, name)
    THEN Returned(root, FALSE, FALSE, <<>>, PathNotFoundMsg, <<>>, <<>>)
    ELSE LET stopped == stop_project(root, name, down)
             kept    == rmFails \/ cleanup.rc # 0
             out2    == IF kept THEN <<>> ELSE RemovedMsg
             err2    == IF rmFails THEN RemoveFailedMsg ELSE <<>>
             after   == IF kept THEN stopped.fs ELSE RemoveTree(stopped.fs, name)
         IN  Returned(after, TRUE, (cleanup.rc = 0) /\ (err2 = <<>>),
                      cleanup.out \o out2, cleanup.err \o err2,
                      stopped.calls \o Invocations(cleanup, ArgsDownCleanup),
                      stopped.runs \o <<RunRecord(ArgsDownCleanup, cleanup)>>)

\* (mutant) shutil.rmtree outside the inner try: its exception reaches the
\* outer handler and the result of `down -v` is dropped
delete_projectUncaught(root, name, down, cleanup, rmFails) ==
    IF ~PathExists(root, name)
    THEN Returned(root, FALSE, FALSE, <<>>, PathNotFoundMsg, <<>>, <<>>)
    ELSE LET stopped == stop_project(root, name, down)
             calls   == stopped.calls \o Invocations(cleanup, ArgsDownCleanup)
             runs    == stopped.runs \o <<RunRecord(ArgsDownCleanup, cleanup)>>
         IN  IF rmFails
             THEN Returned(stopped.fs, TRUE, FALSE, <<>>, ErrorDeletingMsg,
                           calls, runs)
             ELSE Returned(RemoveTree(stopped.fs, name), TRUE, cleanup.rc = 0,
                           cleanup.out \o RemovedMsg, cleanup.err, calls, runs)

\* (mutant) success = (err2 == ''), whatever `down -v` exited with
delete_projectRemovalOnly(root, name, down, cleanup, rmFails) ==
    IF ~PathExists(root, name)
    THEN Returned(root, FALSE, FALSE, <<>>, PathNotFoundMsg, <<>>, <<>>)
    ELSE LET stopped == stop_project(root, name, down)
             out2    == IF rmFails THEN <<>> ELSE RemovedMsg
             err2    == IF rmFails THEN RemoveFailedMsg ELSE <<>>
             after   == IF rmFails THEN stopped.fs ELSE RemoveTree(stopped.fs, name)
         IN  Returned(after, TRUE, err2 = <<>>,
                      cleanup.out \o out2, cleanup.err \o err2,
                      stopped.calls \o Invocations(cleanup, ArgsDownCleanup),
                      stopped.runs \o <<RunRecord(ArgsDownCleanup, cleanup)>>)

\* delete_project(project_name); down is what the inner stop_project's
\* _run_compose produces, cleanup what `down -v --remove-orphans` produces,
\* rmFails whether shutil.rmtree raises
delete_project(root, name, down, cleanup, rmFails) ==
    IF ~PathExists(root, name)
    THEN Returned(root, FALSE, FALSE, <<>>, PathNotFoundMsg, <<>>, <<>>)
    ELSE LET stopped == stop_project(root, name, down)
             out2    == IF rmFails THEN <<>> ELSE RemovedMsg
             err2    == IF rmFails THEN RemoveFailedMsg ELSE <<>>
             after   == IF rmFails THEN stopped.fs ELSE RemoveTree(stopped.fs, name)
         IN  Returned(after, TRUE, (cleanup.rc = 0) /\ (err2 = <<>>),
                      cleanup.out \o out2, cleanup.err \o err2,
                      stopped.calls \o Invocations(cleanup, ArgsDownCleanup),
                      stopped.runs \o <<RunRecord(ArgsDownCleanup, cleanup)>>)

---------------------------------------------------------------------------
(* status: the web endpoint and the CLI command *)

\* the truth value Python gives a tuple or a string: false only when it is
\* empty
Truthy(tuple) == Len(tuple) > 0

\* get_service_status(port): connect_ex(('localhost', port)) == 0, which is
\* so when something on the host holds the port
get_service_status(port, occ) == Held(port, occ)

\* the content of a supabase_config.json that is not a JSON document (cut
\* short, or edited by hand)
MalformedConfig == [malformed |-> TRUE]

\* json.load(f) returns the config; it raises on a malformed file
Loads(content) == content # MalformedConfig

JsonErrorMsg == <<"Expecting value: line 1 column 1 (char 0)">>

\* project_status_api of the web interface, for a project with a config
web_project_status(config, occ) ==
    [status |-> [svc \in DOMAIN config.ports |->
                    get_service_status(config.ports[svc], occ)],
     ports  |-> config.ports]

\* project_status_api(project_name): 404 without a config file, 500 with
\* the exception's text when anything raises, else the status document
project_status_api(root, name, occ) ==
    IF ~HasConfig(root, name)
    THEN [code |-> "404", out |-> <<>>, err |-> <<"Project not found">>]
    ELSE IF ~Loads(root[name].config[1])
    THEN [code |-> "500", out |-> <<>>, err |-> JsonErrorMsg]
    ELSE [code |-> "200",
          out  |-> <<web_project_status(root[name].config[1], occ)>>,
          err  |-> <<>>]

ArgsPs == <<"ps", "--services", "--filter", "status=running">>

\* what `docker compose ps --services --filter status=running` can give:
\* a service listed, nothing listed, or a failure
PsResults ==
    { [returncode |-> 0, stdout |-> <<"kong">>],
      [returncode |-> 0, stdout |-> <<>>],
      [returncode |-> 1, stdout |-> <<>>] }

\* the result of a ps that was not run
NoPs == [returncode |-> 1, stdout |-> <<>>]

\* _check_project_status(project_name) of the CLI: subprocess.run raises when
\* docker is not installed, and the exception is caught
check_project_status(root, name, inst, ps) ==
    IF ~ComposeExists(root, name)
    THEN [running |-> FALSE, calls |-> <<>>]
    ELSE IF Primary \notin inst
    THEN [running |-> FALSE, calls |-> <<>>]
    ELSE [running |-> ps.returncode = 0 /\ Truthy(ps.stdout),
          calls   |-> <<Command(Primary, ArgsPs)>>]

\* status_project(args) of the CLI
cli_status_project(root, name, inst, ps) ==
    IF ~HasConfig(root, name)
    THEN [found |-> FALSE, status |-> "", out |-> <<>>,
          err |-> <<"Project not found">>, calls |-> <<>>]
    ELSE IF ~Loads(root[name].config[1])
    THEN [found |-> TRUE, status |-> "", out |-> <<>>,
          err |-> <<"Failed to get project status">> \o JsonErrorMsg,
          calls |-> <<>>]
    ELSE LET checked == check_project_status(root, name, inst, ps)
         IN  [found  |-> TRUE,
              status |-> IF checked.running THEN "Running" ELSE "Stopped",
              out    |-> <<root[name].config[1].ports>>,
              err    |-> <<>>,
              calls  |-> checked.calls]

---------------------------------------------------------------------------
(* create_project, stage by stage *)

WriteFaults == {"none", "config", "compose", "kong"}

\* (mutant) the uniqueness check is left out
ValidateCreateSizeOnly(root, project_name, machine_size) ==
    IF machine_size \notin ValidMachineSizes THEN "invalid_size" ELSE "pass"

\* the two validations before any side effect: "pass" or the error raised
ValidateCreate(root, project_name, machine_size) ==
    IF PathExists(root, project_name) THEN "duplicate"
    ELSE IF machine_size \notin ValidMachineSizes THEN "invalid_size"
    ELSE "pass"

\* (mutant) os.makedirs(project_path) without exist_ok: raises when the
\* directory is already there
MakeProjectDirExclusive(root, name) ==
    IF PathExists(root, name)
    THEN [fs |-> root, raised |-> TRUE]
    ELSE [fs |-> MakeDirs(root, name), raised |-> FALSE]

\* os.makedirs(project_path, exist_ok=True): an existing directory is no
\* error
MakeProjectDir(root, name) == [fs |-> MakeDirs(root, name), raised |-> FALSE]

\* with open(config_path, 'w') as f: json.dump(config, f, indent=2)
SaveConfig(root, name, config) == WriteConfigFile(root, name, config)

\* (mutant) a failed write removes the project directory again
WriteTopologyRollingBack(root, name, config, fault) ==
    IF ~CanWrite(root, name, fault = "compose")
    THEN [fs |-> RemoveTree(root, name), raised |-> TRUE]
    ELSE LET composed == WriteComposeFile(root, name, RenderCompose(name, config))
         IN  IF ~CanWrite(composed, name, fault = "kong")
             THEN [fs |-> RemoveTree(composed, name), raised |-> TRUE]
             ELSE [fs |-> WriteKongFile(composed, name, RenderKong(config)),
                   raised |-> FALSE]

\* create_docker_compose: writes docker-compose.yml, then calls
\* create_kong_config, which writes kong.yml; `fault` is the write that raises
WriteTopology(root, name, config, fault) ==
    IF ~CanWrite(root, name, fault = "compose")
    THEN [fs |-> root, raised |-> TRUE]
    ELSE LET composed == WriteComposeFile(root, name, RenderCompose(name, config))
         IN  IF ~CanWrite(composed, name, fault = "kong")
             THEN [fs |-> composed, raised |-> TRUE]
             ELSE [fs |-> WriteKongFile(composed, name, RenderKong(config)),
                   raised |-> FALSE]

\* the lines create_project logs around its automatic start
LogCreated      == "Supabase project created successfully!"
LogStarting     == "Starting project services..."
LogStarted      == "Project services started successfully!"
LogStartWarning == "Warning: Failed to start some services automatically"

\* `if self.start_project(project_name):` tests the (success, stdout,
\* stderr) tuple that start_project returns
StartLog(started) ==
    IF Truthy(<<started.success, started.out, started.err>>)
    THEN <<LogStarted>> ELSE <<LogStartWarning>>

\* a create call that ended before its automatic start
NoStart == [success |-> FALSE, runs |-> <<>>, log |-> <<>>]

Created(root, outcome, service, ports, calls, start) ==
    [fs |-> root, outcome |-> outcome, service |-> service,
     ports |-> ports, calls |-> calls, started |-> start.success,
     runs |-> start.runs, log |-> start.log]

\* what create keeps of its automatic start: the success flag start_project
\* returned, the _run_compose calls it made and the lines logged
StartReport(started) ==
    [success |-> started.success,
     runs    |-> started.runs,
     log     |-> <<LogCreated, LogStarting>> \o StartLog(started)]

\* (mutant) a failed automatic start is raised as a failure of create
AfterStartStrict(started, ports) ==
    IF started.success
    THEN Created(started.fs, "created", "", ports, started.calls,
                 StartReport(started))
    ELSE Created(started.fs, "start_failed", "", NoPorts, started.calls,
                 StartReport(started))

\* the end of create_project, after self.start_project(project_name)
\* returned: log the outcome and `return project_path`
AfterStart(started, ports) ==
    Created(started.fs, "created", "", ports, started.calls,
            StartReport(started))

\* create_project(project_name, machine_size, specs) run to completion;
\* alloc is what find_available_ports(base_ports) produces on the host,
\* draw what the call draws for its credentials
create_project(root, alloc, project_name, machine_size, draw, fault, pull, up) ==
    LET verdict == ValidateCreate(root, project_name, machine_size)
    IN  IF verdict # "pass"
        THEN Created(root, verdict, "", NoPorts, <<>>, NoStart)
        ELSE
        LET mk   == MakeProjectDir(root, project_name)
            made == mk.fs
        IN  IF mk.raised
            THEN Created(root, "mkdir_error", "", NoPorts, <<>>, NoStart)
            ELSE
            LET creds == IssueCredentials(draw)
            IN  IF alloc.raised
            THEN Created(made, "port_allocation_failed", alloc.service, NoPorts, <<>>, NoStart)
            ELSE
            LET config == MakeConfig(project_name, machine_size, alloc.ports,
                                     creds)
            IN  IF ~CanWrite(made, project_name, fault = "config")
                THEN Created(made, "write_error", "", NoPorts, <<>>, NoStart)
                ELSE
                LET saved == SaveConfig(made, project_name, config)
                    topo  == WriteTopology(saved, project_name, config, fault)
                IN  IF topo.raised
                    THEN Created(topo.fs, "write_error", "", NoPorts, <<>>, NoStart)
                    ELSE
                    LET started == start_project(topo.fs, project_name, FALSE, pull, up)
                    IN  AfterStart(started, alloc.ports)

---------------------------------------------------------------------------
(* The create route of the web front end *)

\* run_locally(project_name): reads the config and writes start_local.sh;
\* any exception (psycopg2 missing, a refused write) ends it without a file
run_locally(root, name, fails) ==
    IF fails \/ ~HasConfig(root, name)
    THEN root
    ELSE LET config == root[name].config[1]
         IN  WriteScriptFile(root, name,
                 [project |-> name, studio |-> config.ports["studio"],
                  api |-> config.ports["kong"], database |-> config.db_config.database])

NameRequiredMsg == "Project name is required!"

WebReply(root, ok, outcome, calls, runs) ==
    [fs |-> root, ok |-> ok, outcome |-> outcome, calls |-> calls, runs |-> runs]

\* create_project() of the web front end: the form's name is checked for
\* emptiness only, then generator.create_project, generator.start_project
\* and generator.run_locally are called; an exception of create_project is
\* flashed as an error
web_create_project(root, alloc, project_name, machine_size, inp, pull2, up2, localFails) ==
    IF project_name = ""
    THEN WebReply(root, FALSE, NameRequiredMsg, <<>>, <<>>)
    ELSE LET r == create_project(root, alloc, project_name, machine_size,
                                 inp.draw, inp.fault, inp.pull, inp.up)
         IN  IF r.outcome # "created"
             THEN WebReply(r.fs, FALSE, r.outcome, r.calls, r.runs)
             ELSE LET again == start_project(r.fs, project_name, FALSE, pull2, up2)
                  IN  WebReply(run_locally(again.fs, project_name, localFails),
                               TRUE, r.outcome, r.calls \o again.calls,
                               r.runs \o again.runs)

---------------------------------------------------------------------------
(* Host environments the operations are checked in *)

\* every base port held, as while a first project with the default ports runs
AllBasePorts == {<<BasePorts[s], BasePorts[s]>> : s \in Services}

\* the probe window of a service with nothing free but its last port
WindowButLast(service) ==
    {<<BasePorts[service], BasePorts[service] + ProbeLimit - 1>>}

\* the whole probe window of a service
WholeWindow(service) ==
    {<<BasePorts[service], BasePorts[service] + ProbeLimit>>}

\* the hosts the lifecycle is checked on: one where every base port is held,
\* so that each service has to probe upward, and one where auth has no free
\* port in its window
OccupiedScenarios == { AllBasePorts, WholeWindow("auth") }

\* ranges a host may hold for the port-allocation checks: the base port of
\* studio, the rest of its window, its last probe, the last probe of rest,
\* the head of kong's window up to meta's base, the whole window of auth
PortBlocks ==
    { <<3000, 3000>>, <<3001, 3099>>, <<3100, 3100>>, <<3101, 3101>>,
      <<8000, 8079>>, <<9999, 10099>> }

PortScenarios == SUBSET PortBlocks

\* what find_available_ports returns from create's base ports on each host
AllocationOn ==
    {[occ |-> occ, result |-> find_available_ports(BasePorts, occ)] :
        occ \in OccupiedScenarios \cup {{}}}

Allocation(occ) == (CHOOSE e \in AllocationOn : e.occ = occ).result

---------------------------------------------------------------------------
(* Sequential operation: every call runs to completion (Spec) *)

Callers == {1, 2}

Outcome(op, name, size, found, ok, outcome, service, out, err, calls, runs, started, log) ==
    [op |-> op, name |-> name, size |-> size, found |-> found, ok |-> ok,
     outcome |-> outcome, service |-> service, out |-> out, err |-> err,
     calls |-> calls, runs |-> runs, started |-> started, log |-> log]

NoOutcome == Outcome("none", "", "", FALSE, FALSE, "", "", <<>>, <<>>, <<>>,
                     <<>>, FALSE, <<>>)

\* lastAlloc before any allocation; a call's record has called = TRUE
NoAlloc == [called |-> FALSE, occ |-> {}, raised |-> FALSE, service |-> "",
            ports |-> NoPorts]

\* a _run_compose result that ran nothing (also the value of inputs that
\* are never read)
NoRun == [rc |-> 0, out |-> <<>>, err |-> <<>>, tried |-> <<>>]

\* lastRun before any _run_compose call; a call's record has called = TRUE
NoRunYet == [called |-> FALSE, inst |-> {}, args |-> <<>>,
             beh |-> [d \in Dialects |-> CHOOSE b \in Behaviours(d) : b.raises]]
            @@ NoRun

IdleCallers ==
    /\ logs = <<>>
    /\ pc  = [c \in Callers |-> "idle"]
    /\ req = [c \in Callers |-> [name |-> "", size |-> ""]]
    /\ loc = [c \in Callers |-> [ports |-> NoPorts, creds |-> <<>>]]

Init ==
    /\ fs = EmptyRoot
    /\ occupied \in OccupiedScenarios
    /\ installed \in SUBSET Dialects
    /\ last = NoOutcome
    /\ lastAlloc = NoAlloc
    /\ lastRun = NoRunYet
    /\ IdleCallers

\* the draws create calls are driven with: a token without symbols, and one
\* with three of them
FirstDraw  == Draw(TokenOf({}, "A", "Q"), "secret-1", 1700000000)
SecondDraw == Draw(TokenOf({1, 2, 10}, "b", "g"), "secret-2", 1700000060)

Draws == {FirstDraw, SecondDraw}

\* the inputs a create call can meet: a write fault, and what the two
\* _run_compose calls of its automatic start produce (read only when the
\* call gets that far)
CreateInputs(name, size) ==
    IF ValidateCreate(fs, name, size) # "pass" \/ Allocation(occupied).raised
    THEN {[draw |-> FirstDraw, fault |-> "none", pull |-> NoRun, up |-> NoRun]}
    ELSE {[draw |-> FirstDraw, fault |-> "config", pull |-> NoRun, up |-> NoRun]}
         \cup {[draw |-> k, fault |-> f, pull |-> NoRun, up |-> NoRun] :
                    k \in Draws, f \in WriteFaults \ {"none", "config"}}
         \cup {[draw |-> k, fault |-> "none", pull |-> p, up |-> u] :
                    k \in Draws,
                    p \in RunTraces(installed), u \in RunTraces(installed)}

Create(name, size) ==
    \E inp \in CreateInputs(name, size) :
        LET r == create_project(fs, Allocation(occupied), name, size,
                                inp.draw, inp.fault, inp.pull, inp.up)
        IN  /\ fs' = r.fs
            /\ last' = Outcome("create", name, size, PathExists(fs, name),
                               r.outcome = "created", r.outcome, r.service,
                               <<>>, <<>>, r.calls, r.runs, r.started, r.log)
            /\ UNCHANGED <<occupied, installed, logs, lastAlloc, lastRun, pc, req, loc>>

\* what the _run_compose calls of a lifecycle call can produce; a call that
\* returns before it reaches the runtime reads none of it
RunsReached(reached, runs) == IF reached THEN runs ELSE {NoRun}

\* whether the auto-migration of a start call can raise: it matters only
\* when the file holds the old tag
MigrationFaults(root, name) ==
    IF ComposeExists(root, name) /\ ReferencesDeprecated(root[name].compose[1])
    THEN BOOLEAN ELSE {FALSE}

Start(name) ==
    \E pull \in RunsReached(ComposeExists(fs, name), RunTraces(installed)),
       up \in RunsReached(ComposeExists(fs, name), RunResults(installed)),
       fails \in MigrationFaults(fs, name) :
        LET r == start_project(fs, name, fails, pull, up)
        IN  /\ fs' = r.fs
            /\ last' = Outcome("start", name, "", r.found, r.success, "", "",
                               r.out, r.err, r.calls, r.runs, FALSE, <<>>)
            /\ UNCHANGED <<occupied, installed, logs, lastAlloc, lastRun, pc, req, loc>>

Stop(name) ==
    \E down \in RunsReached(ComposeExists(fs, name), RunResults(installed)) :
        LET r == stop_project(fs, name, down)
        IN  /\ fs' = r.fs
            /\ last' = Outcome("stop", name, "", r.found, r.success, "", "",
                               r.out, r.err, r.calls, r.runs, FALSE, <<>>)
            /\ UNCHANGED <<occupied, installed, logs, lastAlloc, lastRun, pc, req, loc>>

Delete(name) ==
    \E down \in RunsReached(ComposeExists(fs, name), RunTraces(installed)),
       cleanup \in RunsReached(PathExists(fs, name), RunResults(installed)),
       rmFails \in IF PathExists(fs, name) THEN BOOLEAN ELSE {FALSE} :
        LET r == delete_project(fs, name, down, cleanup, rmFails)
        IN  /\ fs' = r.fs
            /\ last' = Outcome("delete", name, "", r.found, r.success, "", "",
                               r.out, r.err, r.calls, r.runs, FALSE, <<>>)
            /\ UNCHANGED <<occupied, installed, logs, lastAlloc, lastRun, pc, req, loc>>

\* the operator removes a project directory by hand, outside the tool
ManualRemove(name) ==
    /\ PathExists(fs, name)
    /\ fs' = RemoveTree(fs, name)
    /\ last' = Outcome("manual_remove", name, "", TRUE, TRUE, "", "",
                       <<>>, <<>>, <<>>, <<>>, FALSE, <<>>)
    /\ UNCHANGED <<occupied, installed, logs, lastAlloc, lastRun, pc, req, loc>>

\* GET /api/project/<name>/status of the web front end: 404 without a
\* config file, else the ports map read from it
Status(name) ==
    /\ LET r == project_status_api(fs, name, occupied)
       IN  last' = Outcome("status", name, "", r.code # "404", r.code = "200",
                           r.code, "", r.out, r.err, <<>>, <<>>, FALSE, <<>>)
    /\ UNCHANGED <<fs, occupied, installed, logs, lastAlloc, lastRun, pc, req, loc>>

\* `status` of the CLI
StatusCli(name) ==
    \E ps \in IF HasConfig(fs, name) /\ Loads(fs[name].config[1])
                  /\ ComposeExists(fs, name) /\ Primary \in installed
               THEN PsResults ELSE {NoPs} :
        LET r == cli_status_project(fs, name, installed, ps)
        IN  /\ last' = Outcome("status_cli", name, "", r.found, r.err = <<>>,
                               r.status, "", r.out, r.err, r.calls, <<>>,
                               FALSE, <<>>)
            /\ UNCHANGED <<fs, occupied, installed, logs, lastAlloc, lastRun, pc, req, loc>>

\* `list` of the CLI
ListCli ==
    /\ last' = Outcome("list_cli", "", "", FALSE, TRUE, "", "",
                       cli_list_projects(fs), <<>>, <<>>, <<>>, FALSE, <<>>)
    /\ UNCHANGED <<fs, occupied, installed, logs, lastAlloc, lastRun, pc, req, loc>>

\* GET /projects of the web front end
ListWeb ==
    \E order \in ListdirOrders :
        /\ last' = Outcome("list_web", "", "", FALSE, TRUE, "", "",
                           web_list_projects(fs, order), <<>>, <<>>, <<>>,
                           FALSE, <<>>)
        /\ UNCHANGED <<fs, occupied, installed, logs, lastAlloc, lastRun, pc, req, loc>>

Next ==
    \/ ListCli
    \/ ListWeb
    \/ \E name \in Names : Status(name)
    \/ \E name \in Names : StatusCli(name)
    \/ \E name \in Names, size \in SizeInputs : Create(name, size)
    \/ \E name \in Names : Start(name)
    \/ \E name \in Names : Stop(name)
    \/ \E name \in Names : Delete(name)
    \/ \E name \in Names : ManualRemove(name)

Spec == Init /\ [][Next]_vars

---------------------------------------------------------------------------
(* Port allocation on its own (SpecPorts): the host's occupied ports vary
   and find_available_ports is called from create's base ports *)

InitPorts ==
    /\ fs = EmptyRoot
    /\ occupied \in PortScenarios
    /\ installed = Dialects
    /\ last = NoOutcome
    /\ lastAlloc = NoAlloc
    /\ lastRun = NoRunYet
    /\ IdleCallers

Allocate ==
    /\ lastAlloc' = [called |-> TRUE, occ |-> occupied]
                    @@ find_available_ports(BasePorts, occupied)
    /\ UNCHANGED <<fs, occupied, installed, logs, last, lastRun, pc, req, loc>>

HostPortsChange ==
    /\ occupied' \in PortScenarios \ {occupied}
    /\ UNCHANGED <<fs, installed, logs, last, lastAlloc, lastRun, pc, req, loc>>

NextPorts == Allocate \/ HostPortsChange

SpecPorts == InitPorts /\ [][NextPorts]_vars

---------------------------------------------------------------------------
(* The runtime bridge on its own (SpecBridge): the installed dialects and the
   behaviour of their commands vary and _run_compose is called *)

ComposeArgs == {ArgsPull, ArgsUp, ArgsDown, ArgsDownCleanup}

InitBridge ==
    /\ fs = EmptyRoot
    /\ occupied = {}
    /\ installed \in SUBSET Dialects
    /\ last = NoOutcome
    /\ lastAlloc = NoAlloc
    /\ lastRun = NoRunYet
    /\ IdleCallers

RunCompose(args, beh) ==
    /\ lastRun' = [called |-> TRUE, inst |-> installed, args |-> args, beh |-> beh]
                  @@ run_compose(installed, beh)
    /\ UNCHANGED <<fs, occupied, installed, logs, last, lastAlloc, pc, req, loc>>

HostInstallChange ==
    /\ installed' \in (SUBSET Dialects) \ {installed}
    /\ UNCHANGED <<fs, occupied, logs, last, lastAlloc, lastRun, pc, req, loc>>

NextBridge ==
    \/ \E args \in ComposeArgs, beh \in BehaviourMaps : RunCompose(args, beh)
    \/ HostInstallChange

SpecBridge == InitBridge /\ [][NextBridge]_vars

---------------------------------------------------------------------------
(* The web create route on its own (SpecWeb): the form is posted with
   well-formed names, names with other characters and no name *)

\* names of letters only, a name with symbols, a name with a path separator
PlainNames   == {"alpha"}
SymbolNames  == {"test@#$%", "a/b"}
PostedNames  == PlainNames \cup SymbolNames \cup {""}

InitWeb ==
    /\ fs = [n \in PostedNames \ {""} |-> NoProject]
    /\ occupied = {}
    /\ installed = {Primary}
    /\ last = NoOutcome
    /\ lastAlloc = NoAlloc
    /\ lastRun = NoRunYet
    /\ IdleCallers

\* the form posted and what the calls of the route meet; the writes of
\* create_project succeed here
WebCreate(name, size) ==
    \E inp \in IF name = "" THEN {[draw |-> FirstDraw, fault |-> "none",
                                    pull |-> NoRun, up |-> NoRun]}
                ELSE {i \in CreateInputs(name, size) : i.fault = "none"} :
    \E pull2 \in RunsReached(inp.up # NoRun, RunTraces(installed)),
       up2 \in RunsReached(inp.up # NoRun, RunTraces(installed)),
       localFails \in IF inp.up # NoRun THEN BOOLEAN ELSE {FALSE} :
        LET r == web_create_project(fs, Allocation(occupied), name, size, inp,
                                    pull2, up2, localFails)
        IN  /\ fs' = r.fs
            /\ last' = Outcome("web_create", name, size,
                               name # "" /\ PathExists(fs, name), r.ok,
                               r.outcome, "", <<>>, <<>>, r.calls, <<>>,
                               FALSE, <<>>)
            /\ UNCHANGED <<occupied, installed, logs, lastAlloc, lastRun, pc, req, loc>>

NextWeb == \E name \in PostedNames, size \in SizeInputs : WebCreate(name, size)

SpecWeb == InitWeb /\ [][NextWeb]_vars

---------------------------------------------------------------------------
(* Credentials on their own (SpecKeys): one project is created and deleted
   over and over on an idle host, each create with its own draws *)

KeyDraws ==
    {Draw(token, secret, now) :
        token \in RefTokens, secret \in Secrets, now \in Clock}

InitKeys ==
    /\ fs = EmptyRoot
    /\ occupied = {}
    /\ installed = {}
    /\ last = NoOutcome
    /\ lastAlloc = NoAlloc
    /\ lastRun = NoRunYet
    /\ IdleCallers

CreateWithDraw(name, draw) ==
    \E run \in RunTraces(installed) :
        LET r == create_project(fs, Allocation(occupied), name, "small", draw,
                                "none", run, run)
        IN  /\ fs' = r.fs
            /\ last' = Outcome("create", name, "small", PathExists(fs, name),
                               r.outcome = "created", r.outcome, r.service,
                               <<>>, <<>>, r.calls, r.runs, r.started, r.log)
            /\ UNCHANGED <<occupied, installed, logs, lastAlloc, lastRun, pc, req, loc>>

NextKeys ==
    \/ \E draw \in KeyDraws : CreateWithDraw("alpha", draw)
    \/ Delete("alpha")

SpecKeys == InitKeys /\ [][NextKeys]_vars

---------------------------------------------------------------------------
(* Start on its own (SpecStart): projects an earlier release generated, whose
   topology names the old auth image, are started next to current ones *)

\* the config and the files create_project writes for a project
CurrentProject(name) ==
    LET config == MakeConfig(name, "small", BasePorts, IssueCredentials(FirstDraw))
    IN  [dir |-> TRUE, config |-> <<config>>,
         compose |-> <<RenderCompose(name, config)>>,
         kong |-> <<RenderKong(config)>>, script |-> NoFile]

\* the same project with the old tag as the image of its auth service
LegacyProject(name) ==
    [CurrentProject(name) EXCEPT
        !.compose = <<[@[1] EXCEPT !.images =
            [i \in DOMAIN @ |-> IF @[i] = CurrentAuthImage
                                THEN DeprecatedAuthImage ELSE @[i]]]>>]

\* a legacy project to which a second service on the old image was added
LegacyProjectTwice(name) ==
    [LegacyProject(name) EXCEPT
        !.compose = <<[@[1] EXCEPT !.images = Append(@, DeprecatedAuthImage)]>>]

ProjectsOnDisk(name) ==
    {NoProject, CurrentProject(name), LegacyProject(name),
     LegacyProjectTwice(name)}

InitStart ==
    /\ fs \in {root \in [Names -> UNION {ProjectsOnDisk(n) : n \in Names}] :
                    \A n \in Names : root[n] \in ProjectsOnDisk(n)}
    /\ occupied = {}
    /\ installed \in SUBSET Dialects
    /\ last = NoOutcome
    /\ lastAlloc = NoAlloc
    /\ lastRun = NoRunYet
    /\ IdleCallers

NextStart == \E name \in Names : Start(name)

SpecStart == InitStart /\ [][NextStart]_vars

---------------------------------------------------------------------------
(* status on its own (SpecStatus): it is asked for projects that are whole,
   that lack their config and whose config file is malformed *)

\* a project directory without a config file
ProjectWithoutConfig(name) == [CurrentProject(name) EXCEPT !.config = NoFile]

\* a project whose config file is not a JSON document
ProjectMalformed(name) ==
    [CurrentProject(name) EXCEPT !.config = <<MalformedConfig>>]

ProjectsToLoad(name) ==
    {NoProject, CurrentProject(name), ProjectWithoutConfig(name),
     ProjectMalformed(name)}

InitStatus ==
    /\ fs \in {root \in [Names -> UNION {ProjectsToLoad(n) : n \in Names}] :
                    \A n \in Names : root[n] \in ProjectsToLoad(n)}
    /\ occupied \in {{}, AllBasePorts}
    /\ installed \in SUBSET Dialects
    /\ last = NoOutcome
    /\ lastAlloc = NoAlloc
    /\ lastRun = NoRunYet
    /\ IdleCallers

NextStatus ==
    \/ \E name \in Names : Status(name)
    \/ \E name \in Names : StatusCli(name)

SpecStatus == InitStatus /\ [][NextStatus]_vars

---------------------------------------------------------------------------
(* The log buffer on its own (SpecLog): the web server's threads call
   create_project on the one generator, and each call clears the buffer,
   logs its messages and has the buffer read for its result page *)

\* the messages a create call logs first (lines 136 and 153)
CreateMessages ==
    <<"Starting Supabase project creation", "Using hosted PostgreSQL server">>

\* log_entry: level and message; `by` names the thread that made the call
LogEntry(c, message) == [level |-> "INFO", message |-> message, by |-> c]

\* ProjectLogger.log, under the lock: the entry is appended
log(buffer, entry) == Append(buffer, entry)

\* ProjectLogger.get_logs, under the lock: a copy of the list
get_logs(buffer) == [i \in 1..Len(buffer) |-> buffer[i]]

\* ProjectLogger.clear_logs, under the lock: the list is emptied
clear_logs(buffer) == SubSeq(buffer, 1, 0)

InitLog ==
    /\ fs = EmptyRoot
    /\ occupied = {}
    /\ installed = Dialects
    /\ logs = <<>>
    /\ last = NoOutcome
    /\ lastAlloc = NoAlloc
    /\ lastRun = NoRunYet
    /\ pc = [c \in Callers |-> "idle"]
    /\ req = [c \in Callers |-> [name |-> "", size |-> ""]]
    /\ loc = [c \in Callers |-> [written |-> 0, snapshot |-> <<>>]]

\* a request thread enters create_project
CallCreate(c, name) ==
    /\ pc[c] = "idle" /\ req[c].name = ""
    /\ req' = [req EXCEPT ![c] = [name |-> name, size |-> "small"]]
    /\ pc' = [pc EXCEPT ![c] = "clear"]
    /\ UNCHANGED <<fs, occupied, installed, logs, last, lastAlloc, lastRun, loc>>

\* self.logger.clear_logs() at the start of create_project
ClearLogs(c) ==
    /\ pc[c] = "clear"
    /\ logs' = clear_logs(logs)
    /\ pc' = [pc EXCEPT ![c] = "log"]
    /\ UNCHANGED <<fs, occupied, installed, last, lastAlloc, lastRun, req, loc>>

\* one self.logger.log(...) call of create_project
Log(c) ==
    /\ pc[c] = "log"
    /\ LET k == loc[c].written + 1
       IN  /\ logs' = log(logs, LogEntry(c, CreateMessages[k]))
           /\ loc' = [loc EXCEPT ![c].written = k]
           /\ pc' = [pc EXCEPT ![c] = IF k = Len(CreateMessages) THEN "read"
                                                                  ELSE "log"]
    /\ UNCHANGED <<fs, occupied, installed, last, lastAlloc, lastRun, req>>

\* creation_logs = generator.logger.get_logs() of the create route
GetLogs(c) ==
    /\ pc[c] = "read"
    /\ loc' = [loc EXCEPT ![c].snapshot = get_logs(logs)]
    /\ pc' = [pc EXCEPT ![c] = "idle"]
    /\ UNCHANGED <<fs, occupied, installed, logs, last, lastAlloc, lastRun, req>>

NextLog ==
    \/ \E c \in Callers, name \in Names : CallCreate(c, name)
    \/ \E c \in Callers : ClearLogs(c)
    \/ \E c \in Callers : Log(c)
    \/ \E c \in Callers : GetLogs(c)

SpecLog == InitLog /\ [][NextLog]_vars

---------------------------------------------------------------------------
(* delete on its own (SpecDelete): it is called with the names of projects,
   with the empty name and with a name that has a parent component *)

DeleteNames == Names \cup {RootPath, TraversalPath}

InitDelete ==
    /\ fs \in {root \in [Names -> UNION {{NoProject, CurrentProject(n)} : n \in Names}] :
                    \A n \in Names : root[n] \in {NoProject, CurrentProject(n)}}
    /\ occupied = {}
    /\ installed \in SUBSET Dialects
    /\ last = NoOutcome
    /\ lastAlloc = NoAlloc
    /\ lastRun = NoRunYet
    /\ IdleCallers

NextDelete == \E name \in DeleteNames : Delete(name)

SpecDelete == InitDelete /\ [][NextDelete]_vars

---------------------------------------------------------------------------
(* The probe loop step by step (SpecProbe): one find_available_ports call
   from create's base ports, one bind attempt at a time, on hosts with no
   port held, every base port held, a whole probe window held and a range
   held that reaches past a window *)

ProbeScenarios ==
    {{}, AllBasePorts, WholeWindow("auth"), {<<3001, 3150>>}}

\* (mutant) the loop has no limit
LimitNever(port, base_port) == FALSE

\* `if port > base_port + 100` after `port += 1`
LimitReached(port, base_port) == port > base_port + ProbeLimit

\* the locals of the call before its first probe
ProbeStart ==
    [i |-> 1, port |-> BasePorts[ServiceOrder[1]], attempts |-> 0,
     open |-> 0, free |-> FALSE, ports |-> NoPorts, service |-> ""]

InitProbe ==
    /\ fs = EmptyRoot
    /\ occupied \in ProbeScenarios
    /\ installed = Dialects
    /\ logs = <<>>
    /\ last = NoOutcome
    /\ lastAlloc = NoAlloc
    /\ lastRun = NoRunYet
    /\ pc = [c \in Callers |-> IF c = 1 THEN "probe" ELSE "idle"]
    /\ req = [c \in Callers |-> [name |-> "", size |-> ""]]
    /\ loc = [c \in Callers |-> ProbeStart]

\* check_port_availability up to the bind: a socket is made and bound, or
\* the bind raises OSError
Bind(c) ==
    /\ pc[c] = "probe"
    /\ loc' = [loc EXCEPT ![c].open = @ + 1,
                          ![c].attempts = @ + 1,
                          ![c].free = check_port_availability(loc[c].port, occupied)]
    /\ pc' = [pc EXCEPT ![c] = "bound"]
    /\ UNCHANGED <<fs, occupied, installed, logs, last, lastAlloc, lastRun, req>>

\* the end of the `with` block closes the socket on either way out; then
\* the while loop takes the port, or adds one and tests the limit
Release(c) ==
    /\ pc[c] = "bound"
    /\ LET l       == loc[c]
           service == ServiceOrder[l.i]
           base    == BasePorts[service]
       IN  IF l.free
           THEN /\ loc' = [loc EXCEPT ![c] =
                            [l EXCEPT !.open = @ - 1,
                                      !.ports = @ @@ (service :> l.port),
                                      !.i = @ + 1,
                                      !.attempts = IF l.i < Len(ServiceOrder)
                                                   THEN 0 ELSE @,
                                      !.port = IF l.i < Len(ServiceOrder)
                                               THEN BasePorts[ServiceOrder[l.i + 1]]
                                               ELSE @]]
                /\ pc' = [pc EXCEPT ![c] = IF l.i < Len(ServiceOrder)
                                           THEN "probe" ELSE "returned"]
           ELSE IF LimitReached(l.port + 1, base)
           THEN /\ loc' = [loc EXCEPT ![c] =
                            [l EXCEPT !.open = @ - 1, !.port = @ + 1,
                                      !.ports = NoPorts, !.service = service]]
                /\ pc' = [pc EXCEPT ![c] = "raised"]
           ELSE /\ loc' = [loc EXCEPT ![c] =
                            [l EXCEPT !.open = @ - 1, !.port = @ + 1]]
                /\ pc' = [pc EXCEPT ![c] = "probe"]
    /\ UNCHANGED <<fs, occupied, installed, logs, last, lastAlloc, lastRun, req>>

NextProbe ==
    \/ Bind(1)
    \/ Release(1)

\* the thread that runs the call keeps running
SpecProbe == InitProbe /\ [][NextProbe]_vars /\ WF_vars(NextProbe)

---------------------------------------------------------------------------
(* Rendering on its own (SpecRender): the host's occupied ports vary between
   allocations, and projects are rendered from the ports last allocated *)

\* an idle host, one where every base port is held and one where the head of
\* kong's window is held
RenderScenarios == { {}, AllBasePorts, {<<8000, 8079>>} }

RenderSizes == {"small", "large"}

InitRender ==
    /\ fs = EmptyRoot
    /\ occupied \in RenderScenarios
    /\ installed = Dialects
    /\ last = NoOutcome
    /\ lastAlloc = NoAlloc
    /\ lastRun = NoRunYet
    /\ IdleCallers

HostPortsShift ==
    /\ occupied' \in RenderScenarios \ {occupied}
    /\ UNCHANGED <<fs, installed, logs, last, lastAlloc, lastRun, pc, req, loc>>

\* the config of create_project is saved and create_docker_compose is
\* called on it
RenderProject(name, size, draw) ==
    /\ lastAlloc.called
    /\ ~lastAlloc.raised
    /\ LET config == MakeConfig(name, size, lastAlloc.ports,
                                IssueCredentials(draw))
           saved  == SaveConfig(MakeDirs(fs, name), name, config)
       IN  fs' = WriteTopology(saved, name, config, "none").fs
    /\ UNCHANGED <<occupied, installed, logs, last, lastAlloc, lastRun, pc, req, loc>>

NextRender ==
    \/ Allocate
    \/ HostPortsShift
    \/ \E name \in Names, size \in RenderSizes, draw \in Draws :
            RenderProject(name, size, draw)

SpecRender == InitRender /\ [][NextRender]_vars

---------------------------------------------------------------------------
(* Concurrent creates (SpecRace): two callers run create_project on one
   generator, as the threads of the web front end do; each call advances
   from one filesystem access to the next, and the accesses of the two
   calls interleave freely *)

InitRace ==
    /\ fs = EmptyRoot
    /\ occupied \in {{}, WholeWindow("auth")}
    /\ installed = Dialects
    /\ last = NoOutcome
    /\ lastAlloc = NoAlloc
    /\ lastRun = NoRunYet
    /\ IdleCallers

\* the signing secret the running call of caller c drew: the calls in
\* progress at one time hold different ones
DrawOf(c) == IF c = 1 THEN FirstDraw ELSE SecondDraw

\* the call ends: control returns to the caller with this outcome and the
\* call's frame is gone
Finish(c, outcome, service, calls, start) ==
    /\ pc' = [pc EXCEPT ![c] = "idle"]
    /\ req' = [req EXCEPT ![c] = [name |-> "", size |-> ""]]
    /\ loc' = [loc EXCEPT ![c] = [ports |-> NoPorts, creds |-> <<>>]]
    /\ last' = Outcome("create", req[c].name, req[c].size, TRUE,
                       outcome = "created", outcome, service, <<>>, <<>>, calls,
                       start.runs, start.success, start.log)

Goto(c, label) == pc' = [pc EXCEPT ![c] = label]

\* (mutant) the ports are allocated before the credentials are issued
StageOrderPortsFirst ==
    <<"validate", "mkdir", "ports", "keys", "config", "topology", "start">>

\* the stages of create_project in the order of its statements: the two
\* checks (140-150), makedirs (158), the credentials (162-163), the ports
\* (187-195), the config file (224-226), the topology (230), the start (236)
StageOrder ==
    <<"validate", "mkdir", "keys", "ports", "config", "topology", "start">>

StageAfter(label) ==
    StageOrder[1 + CHOOSE i \in 1..Len(StageOrder) : StageOrder[i] = label]

\* caller c enters create_project(name, size, ...)
CreateBegin(c, name, size) ==
    /\ pc[c] = "idle"
    /\ req' = [req EXCEPT ![c] = [name |-> name, size |-> size]]
    /\ Goto(c, StageOrder[1])
    /\ UNCHANGED <<fs, occupied, installed, logs, last, lastAlloc, lastRun, loc>>

\* os.path.exists(project_path), then the machine size check
CreateValidate(c) ==
    /\ pc[c] = "validate"
    /\ LET verdict == ValidateCreate(fs, req[c].name, req[c].size)
       IN  IF verdict = "pass"
           THEN Goto(c, StageAfter("validate")) /\ UNCHANGED <<last, req, loc>>
           ELSE Finish(c, verdict, "", <<>>, NoStart)
    /\ UNCHANGED <<fs, occupied, installed, logs, lastAlloc, lastRun>>

\* os.makedirs(project_path, exist_ok=True)
CreateMakeDir(c) ==
    /\ pc[c] = "mkdir"
    /\ LET mk == MakeProjectDir(fs, req[c].name)
       IN  /\ fs' = mk.fs
           /\ IF mk.raised
              THEN Finish(c, "mkdir_error", "", <<>>, NoStart)
              ELSE Goto(c, StageAfter("mkdir")) /\ UNCHANGED <<last, req, loc>>
    /\ UNCHANGED <<occupied, installed, logs, lastAlloc, lastRun>>

\* project_ref = secrets.token_urlsafe(16)..., then
\* self.generate_jwt_keys(project_ref)
CreateIssueKeys(c) ==
    /\ pc[c] = "keys"
    /\ loc' = [loc EXCEPT ![c].creds = <<IssueCredentials(DrawOf(c))>>]
    /\ Goto(c, StageAfter("keys"))
    /\ UNCHANGED <<fs, occupied, installed, logs, last, lastAlloc, lastRun, req>>

\* find_available_ports(base_ports)
CreateAllocate(c) ==
    /\ pc[c] = "ports"
    /\ LET alloc == Allocation(occupied)
       IN  IF alloc.raised
           THEN Finish(c, "port_allocation_failed", alloc.service, <<>>, NoStart)
           ELSE /\ loc' = [loc EXCEPT ![c].ports = alloc.ports]
                /\ Goto(c, StageAfter("ports"))
                /\ UNCHANGED <<last, req>>
    /\ UNCHANGED <<fs, occupied, installed, logs, lastAlloc, lastRun>>

\* open(config_path, 'w') and json.dump(config)
CreateSaveConfig(c) ==
    /\ pc[c] = "config"
    /\ \E fault \in BOOLEAN :
        IF CanWrite(fs, req[c].name, fault)
        THEN /\ fs' = SaveConfig(fs, req[c].name,
                                 MakeConfig(req[c].name, req[c].size, loc[c].ports,
                                            loc[c].creds[1]))
             /\ Goto(c, StageAfter("config"))
             /\ UNCHANGED <<last, req, loc>>
        ELSE /\ Finish(c, "write_error", "", <<>>, NoStart)
             /\ UNCHANGED fs
    /\ UNCHANGED <<occupied, installed, logs, lastAlloc, lastRun>>

\* create_docker_compose(project_path, project_name, config)
CreateWriteTopology(c) ==
    /\ pc[c] = "topology"
    /\ \E fault \in {"none", "compose", "kong"} :
        LET topo == WriteTopology(fs, req[c].name,
                        MakeConfig(req[c].name, req[c].size, loc[c].ports,
                                   loc[c].creds[1]), fault)
        IN  /\ fs' = topo.fs
            /\ IF topo.raised
               THEN Finish(c, "write_error", "", <<>>, NoStart)
               ELSE Goto(c, StageAfter("topology")) /\ UNCHANGED <<last, req, loc>>
    /\ UNCHANGED <<occupied, installed, logs, lastAlloc, lastRun>>

\* self.start_project(project_name), then return project_path
CreateStart(c) ==
    /\ pc[c] = "start"
    /\ \E pull \in RunTraces(installed), up \in RunTraces(installed) :
        LET started == start_project(fs, req[c].name, FALSE, pull, up)
            r       == AfterStart(started, loc[c].ports)
        IN  /\ fs' = r.fs
            /\ Finish(c, r.outcome, r.service, r.calls,
                      [success |-> r.started, runs |-> r.runs, log |-> r.log])
    /\ UNCHANGED <<occupied, installed, logs, lastAlloc, lastRun>>

NextRace ==
    \/ \E c \in Callers, name \in RaceNames, size \in RaceSizeInputs :
           CreateBegin(c, name, size)
    \/ \E c \in Callers : CreateValidate(c)
    \/ \E c \in Callers : CreateMakeDir(c)
    \/ \E c \in Callers : CreateIssueKeys(c)
    \/ \E c \in Callers : CreateAllocate(c)
    \/ \E c \in Callers : CreateSaveConfig(c)
    \/ \E c \in Callers : CreateWriteTopology(c)
    \/ \E c \in Callers : CreateStart(c)

SpecRace == InitRace /\ [][NextRace]_vars

---------------------------------------------------------------------------
(* Properties of create and of the lifecycle calls *)

\* every port of base..base+n of the service is held
WindowHeld(service, occ, n) ==
    \A q \in BasePorts[service]..(BasePorts[service] + n) : Held(q, occ)

PostDirectoryFailures == {"port_allocation_failed", "write_error"}

\* C1: a create for a name whose directory exists, or with a size outside
\* the four valid ones, fails (as a duplicate if the directory exists, else
\* as an invalid size) and leaves everything under the projects root as it
\* was, running no command; so a create right after a create of the same
\* name that got past validation fails as a duplicate and changes nothing.
C1_ValidationBeforeSideEffects ==
    [][ /\ ( /\ last'.op = "create"
             /\ \/ PathExists(fs, last'.name)
                \/ last'.size \notin ValidMachineSizes ) =>
               /\ fs' = fs
               /\ ~last'.ok
               /\ last'.calls = <<>>
               /\ last'.outcome = IF PathExists(fs, last'.name)
                                  THEN "duplicate" ELSE "invalid_size"
        /\ ( /\ last.op = "create" /\ last.outcome # "invalid_size"
             /\ last'.op = "create" /\ last'.name = last.name ) =>
               /\ last'.outcome = "duplicate"
               /\ fs' = fs
      ]_vars

\* C1 witness: a create has just failed as a duplicate of a project that an
\* earlier create built in full.
C1_Witness ==
    /\ last.op = "create" /\ last.outcome = "duplicate"
    /\ fs[last.name].config # NoFile /\ fs[last.name].kong # NoFile

\* C2: creates are not serialized.  A create that passed the existence check
\* is not stopped by the directory having been created meanwhile: its
\* makedirs succeeds, it never ends as a duplicate, and it writes its own
\* config and its own topology into the directory, over whatever another
\* create put there.
C2_CreatesNotSerialized ==
    [][ \A c \in Callers :
          /\ (pc[c] = "mkdir" /\ pc'[c] # "mkdir") =>
                pc'[c] = "keys" /\ PathExists(fs', req[c].name)
          /\ (pc[c] \notin {"idle", "validate"} /\ pc'[c] = "idle") =>
                last'.outcome \notin {"duplicate", "mkdir_error"}
          /\ (pc[c] = "config" /\ pc'[c] = "topology") =>
                fs'[req[c].name].config =
                    <<MakeConfig(req[c].name, req[c].size, loc[c].ports,
                               IssueCredentials(DrawOf(c)))>>
          /\ (pc[c] = "topology" /\ pc'[c] = "start") =>
                fs'[req[c].name].compose =
                    <<RenderCompose(req[c].name,
                                    MakeConfig(req[c].name, req[c].size, loc[c].ports,
                                               IssueCredentials(DrawOf(c))))>>
      ]_vars

\* C2 witness: two creates for one name, asking for different sizes, have
\* both passed the check and both written config and topology into the one
\* directory; neither has failed.
C2_Witness ==
    /\ pc[1] = "start" /\ pc[2] = "start"
    /\ req[1].name = req[2].name
    /\ req[1].size # req[2].size

\* the first service, in create's order, whose whole probe window is held
FirstExhausted(occ) ==
    ServiceOrder[CHOOSE i \in 1..Len(ServiceOrder) :
                    /\ WindowHeld(ServiceOrder[i], occ, 100)
                    /\ \A j \in 1..(i - 1) : ~WindowHeld(ServiceOrder[j], occ, 100)]

\* C6: when port allocation fails during create (the create passed
\* validation and some service has no free port in its window), the create
\* fails naming the offending service, and nothing but the project directory
\* is on disk for it: no config, no topology, no routing file is written,
\* and no command is run.
C6_NoPartialAllocation ==
    [][ ( /\ last'.op = "create"
          /\ ValidateCreate(fs, last'.name, last'.size) = "pass"
          /\ \E s \in Services : WindowHeld(s, occupied, 100) ) =>
            /\ last'.outcome = "port_allocation_failed"
            /\ ~last'.ok
            /\ last'.service = FirstExhausted(occupied)
            /\ last'.calls = <<>>
            /\ fs' = [fs EXCEPT ![last'.name].dir = TRUE]
            /\ fs'[last'.name].config = NoFile
            /\ fs'[last'.name].compose = NoFile
            /\ fs'[last'.name].kong = NoFile
      ]_vars

\* C6 witness: a create has just failed in port allocation, naming auth,
\* after studio and kong had found their ports.
C6_Witness ==
    /\ last.op = "create" /\ last.outcome = "port_allocation_failed"
    /\ last.service = "auth"
    /\ fs[last.name].dir /\ fs[last.name].config = NoFile

\* C7: a create that fails after it created the directory (port exhaustion,
\* a write error) leaves the directory on disk and touches no other
\* project; while a directory is there, complete or not, every create of its
\* name fails as a duplicate and changes nothing, and once it is gone a
\* create of the name no longer fails as a duplicate.
C7_FailedCreateKeepsDirectory ==
    [][ /\ ( last'.op = "create" /\ last'.outcome \in PostDirectoryFailures ) =>
               /\ ~PathExists(fs, last'.name)
               /\ PathExists(fs', last'.name)
               /\ \A m \in Names \ {last'.name} : fs'[m] = fs[m]
        /\ ( /\ last.op = "create" /\ last.outcome \in PostDirectoryFailures
             /\ last'.op = "create" /\ last'.name = last.name ) =>
               last'.outcome = "duplicate" /\ fs' = fs
        /\ ( /\ last'.op = "create" /\ PathExists(fs, last'.name)
             /\ fs[last'.name].kong = NoFile ) =>
               last'.outcome = "duplicate" /\ fs' = fs
        /\ ( last'.op = "create" /\ ~PathExists(fs, last'.name) ) =>
               last'.outcome # "duplicate"
      ]_vars

\* C7 witness: a create has just failed as a duplicate of a directory that a
\* failed create left behind without a config.
C7_Witness ==
    /\ last.op = "create" /\ last.outcome = "duplicate"
    /\ fs[last.name].dir /\ fs[last.name].config = NoFile

\* C8: start, stop and delete on a name whose directory does not exist
\* return failure with the not-found message and no output, run no command
\* and change nothing on disk.
C8_MissingProjectNotFound ==
    [][ ( /\ last'.op \in {"start", "stop", "delete"}
          /\ ~PathExists(fs, last'.name) ) =>
            /\ ~last'.ok
            /\ ~last'.found
            /\ last'.out = <<>>
            /\ last'.err = PathNotFoundMsg
            /\ last'.calls = <<>>
            /\ fs' = fs
      ]_vars

\* C8 witness: stop has just been called on a name without a directory
\* while the other project exists.
C8_Witness ==
    /\ last.op = "stop" /\ ~last.found /\ last.err = PathNotFoundMsg
    /\ \E m \in Names \ {last.name} : fs[m].dir

\* seq ends with the lines of suffix
EndsWith(seq, suffix) ==
    /\ Len(seq) >= Len(suffix)
    /\ SubSeq(seq, Len(seq) - Len(suffix) + 1, Len(seq)) = suffix

\* the last _run_compose call a lifecycle call made
FinalRun(outcome) == outcome.runs[Len(outcome.runs)]

\* C11: delete on an existing directory first makes its best-effort stop
\* (which runs `down` when the topology file is there), then runs `down -v
\* --remove-orphans`, and then attempts the removal whatever those commands
\* did: unless the removal itself raised, the directory is gone afterwards,
\* also when the commands exited non-zero or no runtime is installed.
C11_DeleteTearsDownThenRemoves ==
    [][ ( last'.op = "delete" /\ PathExists(fs, last'.name) ) =>
          LET n    == last'.name
              runs == last'.runs
          IN  /\ runs # <<>>
              /\ FinalRun(last').args = ArgsDownCleanup
              /\ IF ComposeExists(fs, n)
                 THEN Len(runs) = 2 /\ runs[1].args = ArgsDown
                 ELSE Len(runs) = 1
              /\ \A i \in 1..Len(runs) :
                    (runs[i].tried # <<>>) <=> (installed # {})
              /\ \/ /\ fs' = RemoveTree(fs, n)
                    /\ EndsWith(last'.out, RemovedMsg)
                    /\ ~EndsWith(last'.err, RemoveFailedMsg)
                 \/ /\ fs' = fs
                    /\ EndsWith(last'.err, RemoveFailedMsg)
                    /\ ~last'.ok
      ]_vars

\* C11 witness: delete has just removed a directory although its stop and
\* its `down -v` both ran a command and exited non-zero.
C11_Witness ==
    /\ last.op = "delete" /\ ~PathExists(fs, last.name)
    /\ Len(last.runs) = 2
    /\ \A i \in 1..2 : last.runs[i].rc # 0 /\ last.runs[i].tried # <<>>

\* C12: delete on an existing directory reports success exactly when the
\* directory removal succeeded and `down -v --remove-orphans` exited zero;
\* a removed directory with a failed command is reported as failure.
C12_DeleteSuccessNeedsBoth ==
    [][ ( last'.op = "delete" /\ PathExists(fs, last'.name) ) =>
          ( last'.ok <=> ( /\ ~PathExists(fs', last'.name)
                           /\ FinalRun(last').rc = 0 ) )
      ]_vars

\* C12 witness: delete has just reported failure with the directory removed
\* and the removal noted in its output, because `down -v` exited non-zero.
C12_Witness ==
    /\ last.op = "delete" /\ ~last.ok
    /\ ~PathExists(fs, last.name)
    /\ EndsWith(last.out, RemovedMsg)
    /\ FinalRun(last).rc # 0

\* C14: start, stop and delete always hand back a (success, stdout, stderr)
\* outcome: on a missing path or topology file the failure message, else
\* what the runtime command returned; when delete cannot remove the
\* directory the error is captured, not raised: delete reports failure,
\* keeps the stdout of `down -v` and appends the removal error to its
\* stderr.
C14_LifecycleNeverRaises ==
    [][ ( last'.op \in {"start", "stop", "delete"} ) =>
          LET n == last'.name
          IN  /\ last'.ok \in BOOLEAN
              /\ (last'.runs = <<>>) =>
                    /\ ~last'.ok /\ last'.out = <<>>
                    /\ last'.err \in {PathNotFoundMsg, NoComposeMsg}
              /\ ( /\ last'.op = "delete"
                   /\ PathExists(fs, n) /\ PathExists(fs', n) ) =>
                    /\ fs' = fs
                    /\ ~last'.ok
                    /\ \E c \in RunResults(installed) :
                          /\ c.rc = FinalRun(last').rc
                          /\ c.tried = FinalRun(last').tried
                          /\ last'.out = c.out
                          /\ last'.err = c.err \o RemoveFailedMsg
      ]_vars

\* C14 witness: delete could not remove the directory after a `down -v`
\* that failed with its own stderr: both errors are in the outcome.
C14_Witness ==
    /\ last.op = "delete" /\ PathExists(fs, last.name)
    /\ ~last.ok
    /\ EndsWith(last.err, RemoveFailedMsg) /\ Len(last.err) > Len(RemoveFailedMsg)
    /\ FinalRun(last).rc # 0

\* C15: when start reaches the runtime (directory and topology file
\* exist) it runs `pull`, then `up -d`, and reports success exactly when
\* `up -d` exited zero, whatever `pull` did.
C15_StartPullThenUp ==
    [][ ( last'.op = "start" /\ ComposeExists(fs, last'.name) ) =>
          /\ Len(last'.runs) = 2
          /\ last'.runs[1].args = ArgsPull
          /\ last'.runs[2].args = ArgsUp
          /\ last'.calls =
                [i \in 1..Len(last'.runs[1].tried) |->
                    Command(last'.runs[1].tried[i], ArgsPull)] \o
                [i \in 1..Len(last'.runs[2].tried) |->
                    Command(last'.runs[2].tried[i], ArgsUp)]
          /\ last'.ok <=> (last'.runs[2].rc = 0)
      ]_vars

\* C15 witness: start has just succeeded although its pull ran a command
\* and failed.
C15_Witness ==
    /\ last.op = "start" /\ last.ok
    /\ Len(last.runs) = 2
    /\ last.runs[1].rc # 0 /\ last.runs[1].tried # <<>>

\* C16 (as claimed): stop on an existing project directory invokes `down`
\* (without cleanup flags), reports success exactly when it exited zero, and
\* changes no file.
C16_StopInvokesDown ==
    [][ ( last'.op = "stop" /\ PathExists(fs, last'.name) ) =>
          /\ Len(last'.runs) = 1
          /\ last'.runs[1].args = ArgsDown
          /\ last'.ok <=> (last'.runs[1].rc = 0)
          /\ fs' = fs
      ]_vars

\* C16 (amended): stop on an existing project directory that holds the
\* topology file invokes `down` (without cleanup flags) and reports success
\* exactly when it exited zero; on a directory without the topology file it
\* invokes nothing and fails with "docker-compose.yml not found"; in both
\* cases it changes no file.
C16_StopInvokesDownIfTopology ==
    [][ ( last'.op = "stop" /\ PathExists(fs, last'.name) ) =>
          /\ fs' = fs
          /\ IF ComposeExists(fs, last'.name)
             THEN /\ Len(last'.runs) = 1
                  /\ last'.runs[1].args = ArgsDown
                  /\ last'.calls =
                        [i \in 1..Len(last'.runs[1].tried) |->
                            Command(last'.runs[1].tried[i], ArgsDown)]
                  /\ last'.ok <=> (last'.runs[1].rc = 0)
             ELSE /\ last'.runs = <<>> /\ last'.calls = <<>>
                  /\ ~last'.ok
                  /\ last'.err = NoComposeMsg
      ]_vars

\* C16 witness: stop on a directory that a failed create left without a
\* topology file.
C16_Witness ==
    /\ last.op = "stop" /\ PathExists(fs, last.name)
    /\ fs[last.name].compose = NoFile
    /\ last.err = NoComposeMsg /\ last.runs = <<>>

\* the set of elements of a sequence
Range(seq) == {seq[i] : i \in 1..Len(seq)}

\* C13 (as claimed): list, in the CLI and in the web front end, enumerates
\* exactly the names of the subdirectories present under the projects root
\* at the time of the call, each once, and changes nothing.
C13_ListEnumeratesDirectories ==
    [][ ( last'.op \in {"list_cli", "list_web"} ) =>
          /\ Range(last'.out) = ListDirs(fs)
          /\ Len(last'.out) = Cardinality(ListDirs(fs))
          /\ fs' = fs
      ]_vars

\* C17: whenever a create has written the config, the topology and the
\* routing file, it returns normally whatever its automatic start reported,
\* and the three files are on disk afterwards; a create that returns
\* normally has attempted the start.
C17_StartFailureNotFatal ==
    [][ /\ ( /\ last'.op = "create"
             /\ ~PathExists(fs, last'.name)
             /\ fs'[last'.name].config # NoFile
             /\ fs'[last'.name].compose # NoFile
             /\ fs'[last'.name].kong # NoFile ) =>
               /\ last'.ok
               /\ last'.outcome = "created"
        /\ ( last'.op = "create" /\ last'.outcome = "created" ) =>
               /\ fs'[last'.name].config # NoFile
               /\ fs'[last'.name].compose # NoFile
               /\ fs'[last'.name].kong # NoFile
               /\ Len(last'.runs) = 2
               /\ last'.runs[2].args = ArgsUp
               /\ last'.started <=> (last'.runs[2].rc = 0)
      ]_vars

\* C17 witness: a create has just returned normally with its files on disk
\* although `up -d` of its automatic start ran and exited non-zero.
C17_Witness ==
    /\ last.op = "create" /\ last.ok
    /\ ~last.started
    /\ last.runs[2].rc # 0 /\ last.runs[2].tried # <<>>
    /\ fs[last.name].config # NoFile
    /\ fs[last.name].compose # NoFile
    /\ fs[last.name].kong # NoFile

\* C18 (as claimed): the log of a create that reached its automatic start
\* has the warning that services failed to start whenever start_project
\* reported failure, and the line that they started only when it reported
\* success.
C18_StartOutcomeLogged ==
    ( last.op = "create" /\ last.outcome = "created" ) =>
        /\ ~last.started => LogStartWarning \in Range(last.log)
        /\ LogStarted \in Range(last.log) => last.started

\* C19: the config file of a project is written once, by the create that
\* made the directory, and never changes afterwards: start, stop and status
\* leave every config file as it is, and an existing config file goes away
\* only together with its whole directory, by delete (or by removal by
\* hand).
C19_ConfigWrittenOnce ==
    [][ \A n \in Names :
          /\ (fs[n].config # NoFile) =>
                \/ fs'[n].config = fs[n].config
                \/ /\ fs'[n] = NoProject
                   /\ last'.op \in {"delete", "manual_remove"}
                   /\ last'.name = n
          /\ (fs[n].config = NoFile /\ fs'[n].config # NoFile) =>
                /\ last'.op = "create" /\ last'.name = n
                /\ ~PathExists(fs, n)
          /\ (last'.op \in {"start", "stop", "status"}) =>
                fs'[n].config = fs[n].config
      ]_vars

\* C19 witness: start has just run both its commands on a project whose
\* config file holds the ports allocated at creation.
C19_Witness ==
    /\ last.op = "start" /\ Len(last.runs) = 2
    /\ fs[last.name].config # NoFile
    /\ fs[last.name].config[1].ports = Allocation(occupied).ports

\* C20 (as claimed): in every reachable state, a project directory that
\* holds a config file and a topology file holds the topology that the
\* config renders to, and its routing file, if there, is the config's
\* rendering too.
C20_DerivedFilesMatchConfig ==
    \A n \in Names :
        (fs[n].config # NoFile /\ fs[n].compose # NoFile) =>
            /\ fs[n].compose = <<RenderCompose(n, fs[n].config[1])>>
            /\ fs[n].kong # NoFile => fs[n].kong = <<RenderKong(fs[n].config[1])>>

\* a project with its config, its topology and its routing file
Rendered(n) == fs[n].config # NoFile /\ fs[n].compose # NoFile /\ fs[n].kong # NoFile

C22_RewriteBeforeRuntime ==
    [][(last'.op = "start" /\ last'.runs # <<>>) =>
          LET n == last'.name
          IN  /\ ~ReferencesDeprecated(fs'[n].compose[1])
              /\ fs' = [fs EXCEPT ![n].compose = <<MigrateCompose(@[1])>>]
              /\ ~ReferencesDeprecated(fs[n].compose[1]) => fs' = fs
      ]_vars

\* a start call that reached the runtime and left the old tag in the
\* topology file
C22_RuntimeOnDeprecated ==
    /\ last.op = "start" /\ last.runs # <<>>
    /\ ReferencesDeprecated(fs[last.name].compose[1])

\* C23: a status call, of the web endpoint or of the CLI, is read-only and
\* never touches the runtime: it changes no file, it runs no container
\* runtime command, and what it reports as running is decided by probing
\* the ports of the persisted config.
C23_StatusNeverTouchesRuntime ==
    [][(last'.op \in {"status", "status_cli"}) =>
          /\ fs' = fs
          /\ last'.calls = <<>>
      ]_vars

\* the status command of the CLI has run `docker compose ps` in a project
C23_StatusRanRuntime ==
    /\ last.op = "status_cli"
    /\ last.calls = <<Command(Primary, ArgsPs)>>

\* C24: a create request whose name holds characters outside letters and
\* digits (symbols such as @ # $ %, or a path separator) fails and creates
\* no directory and no file, as a request with an empty name does.
C24_InvalidNamesRejected ==
    [][(last'.op = "web_create" /\ last'.name \in SymbolNames \cup {""}) =>
          /\ ~last'.ok
          /\ fs' = fs
      ]_vars

\* a request with a name of symbols was served and left a full project
C24_SymbolNameCreated ==
    /\ last.op = "web_create" /\ last.ok
    /\ last.name \in SymbolNames
    /\ Rendered(last.name)

\* jwt.decode(token, key, algorithms=["HS256"]) accepts the token
Verifies(token, key) == token.signature = <<token.payload, key>>

\* C25: in every config create persists, the anon and the service token
\* carry the same reference, issuer, issued-at and expiry and differ in
\* their role only (anon, service_role); both verify under the config's
\* jwt_secret; and their reference is the config's project_ref.
C25_TokensShareAllButRole ==
    \A n \in Names :
        fs[n].config # NoFile =>
            LET config  == fs[n].config[1]
                anon    == config.anon_key.payload
                service == config.service_key.payload
            IN  /\ anon.role = "anon" /\ service.role = "service_role"
                /\ [anon EXCEPT !.role = "service_role"] = service
                /\ Verifies(config.anon_key, config.jwt_secret)
                /\ Verifies(config.service_key, config.jwt_secret)
                /\ anon.ref = config.project_ref
                /\ service.ref = config.project_ref
                /\ anon.iss = "supabase"
                /\ anon.exp = anon.iat + TenYears

\* a persisted config whose reference was cut from a token with symbols
C25_Witness ==
    \E n \in Names :
        /\ last.op = "create" /\ last.ok /\ last.name = n
        /\ fs[n].config # NoFile
        /\ Len(fs[n].config[1].project_ref) < RefLen
        /\ fs[n].config[1].anon_key.payload.ref = fs[n].config[1].project_ref
        /\ fs[n].config[1].anon_key # fs[n].config[1].service_key

LowerAlnum ==
    {"a", "b", "c", "d", "e", "f", "g", "h", "i", "j", "k", "l", "m", "n",
     "o", "p", "q", "r", "s", "t", "u", "v", "w", "x", "y", "z",
     "0", "1", "2", "3", "4", "5", "6", "7", "8", "9"}

\* C26: every project reference create generates is exactly 20 characters
\* long and holds lowercase letters and digits only, whatever token it was
\* derived from.
C26_RefIsTwentyLowerAlnum ==
    \A n \in Names :
        fs[n].config # NoFile =>
            LET ref == fs[n].config[1].project_ref
            IN  /\ Len(ref) = RefLen
                /\ \A i \in DOMAIN ref : ref[i] \in LowerAlnum

\* a persisted reference shorter than 20 characters
C26_ShortRef ==
    \E n \in Names :
        /\ fs[n].config # NoFile
        /\ Len(fs[n].config[1].project_ref) < RefLen

\* a call has been through a stage when a later stage is its current one
\* (the listed order is the one of the statements of create_project)
Position(label) ==
    CHOOSE i \in 1..7 :
        <<"validate", "mkdir", "keys", "ports", "config", "topology",
          "start">>[i] = label

\* C27 (as claimed): create reserves the name, then allocates the ports,
\* then issues the credentials, then persists the config, then renders the
\* topology, then starts; credentials are never issued before port
\* allocation has succeeded.
C27_CredentialsAfterPorts ==
    \A c \in Callers : loc[c].creds # <<>> => loc[c].ports # NoPorts

\* C27: every create call goes through its steps in one order: the name
\* is reserved (uniqueness check, directory), then the credentials are
\* issued, then the ports are allocated, then the config is persisted, then
\* the topology is rendered, then the project is started. A call leaves a
\* step for the next one or ends; ports are allocated only by a call that
\* holds its credentials, the topology is rendered only once the config
\* file is there, and the start runs only once both the topology and the
\* routing file are there.
C27_StepsInOrder ==
    [][\A c \in Callers :
         /\ pc'[c] # pc[c] =>
                \/ pc'[c] = "idle"
                \/ pc[c] = "idle" /\ pc'[c] = "validate"
                \/ /\ pc[c] # "idle"
                   /\ Position(pc'[c]) = Position(pc[c]) + 1
         /\ pc'[c] = "keys" => PathExists(fs', req'[c].name)
         /\ pc'[c] = "ports" =>
                loc'[c].creds # <<>> /\ loc'[c].ports = NoPorts
         /\ pc'[c] = "config" =>
                loc'[c].creds # <<>> /\ loc'[c].ports # NoPorts
         /\ pc'[c] = "topology" => fs'[req'[c].name].config # NoFile
         /\ pc'[c] = "start" =>
                /\ fs'[req'[c].name].config # NoFile
                /\ fs'[req'[c].name].compose # NoFile
                /\ fs'[req'[c].name].kong # NoFile
         /\ (pc[c] = "start" /\ pc'[c] = "idle" /\ last'.runs # <<>>) =>
                /\ fs[req[c].name].compose # NoFile
                /\ fs[req[c].name].kong # NoFile
      ]_vars

\* a call that holds its credentials and is about to allocate its ports
C27_Witness ==
    \E c \in Callers :
        /\ pc[c] = "ports"
        /\ loc[c].creds = <<IssueCredentials(DrawOf(c))>>
        /\ loc[c].ports = NoPorts

\* C28: a create that returns normally leaves the project directory with
\* the config, the topology file and the routing file; a start or a stop
\* leaves all three in place, and a project that holds the three loses one
\* only when its directory is removed, by delete or by hand.
C28_ArtifactsStayUntilDelete ==
    [][\A n \in Names :
         /\ (last'.op = "create" /\ last'.ok /\ last'.name = n) =>
                PathExists(fs', n) /\ Rendered(n)'
         /\ (Rendered(n) /\ last'.op \in {"start", "stop"}) => Rendered(n)'
         /\ (Rendered(n) /\ ~Rendered(n)') =>
                /\ last'.op \in {"delete", "manual_remove"}
                /\ last'.name = n
                /\ fs'[n] = NoProject
      ]_vars

\* a project created in full that has since been started and stopped, both
\* with success, and still holds its three files
C28_Witness ==
    /\ last.op = "stop" /\ last.ok
    /\ last.calls # <<>>
    /\ Rendered(last.name)
    /\ PathExists(fs, last.name)

\* C29 (as claimed): the ports map of every persisted config has exactly 9
\* service entries.
C29_NinePorts ==
    \A n \in Names :
        fs[n].config # NoFile =>
            Cardinality(DOMAIN fs[n].config[1].ports) = 9

\* C29: the ports map of every persisted config has exactly 10 entries, one
\* for each of studio, kong, auth, rest, realtime, storage, meta, functions,
\* analytics and vector, each holding a port number.
C29_TenPorts ==
    \A n \in Names :
        fs[n].config # NoFile =>
            LET ports == fs[n].config[1].ports
            IN  /\ DOMAIN ports =
                       {"studio", "kong", "auth", "rest", "realtime", "storage",
                        "meta", "functions", "analytics", "vector"}
                /\ Cardinality(DOMAIN ports) = 10
                /\ \A s \in DOMAIN ports : ports[s] \in 1..65535

\* a create has just persisted a config with a port for the studio
C29_Witness ==
    /\ last.op = "create" /\ last.ok
    /\ fs[last.name].config # NoFile
    /\ "studio" \in DOMAIN fs[last.name].config[1].ports
    /\ fs[last.name].config[1].ports = Allocation(occupied).ports

\* C30 (as claimed): the upstream of the /rest/v1/* route is a function of
\* the port allocated to the gateway: two projects whose configs differ in
\* the gateway's port have different /rest/v1/* upstreams in their routing
\* files.
C30_UpstreamFollowsGatewayPort ==
    \A n, m \in Names :
        (Rendered(n) /\ Rendered(m)
         /\ fs[n].config[1].ports["kong"] # fs[m].config[1].ports["kong"]) =>
            fs[n].kong[1]["/rest/v1/*"] # fs[m].kong[1]["/rest/v1/*"]

\* C30: the routing file does not depend on the config. In every routing
\* file the upstream of /rest/v1/* is http://rest:3000/, the address of the
\* rest service inside the project's network, whatever port was allocated to
\* the gateway, and the routing files of any two projects are equal.
C30_UpstreamIsFixed ==
    \A n, m \in Names :
        (Rendered(n) /\ Rendered(m)) =>
            /\ fs[n].kong[1]["/rest/v1/*"] = Url("rest", 3000, "/")
            /\ fs[n].kong = fs[m].kong

\* two rendered projects whose gateways were allocated different ports
C30_Witness ==
    \E n, m \in Names :
        /\ Rendered(n) /\ Rendered(m)
        /\ fs[n].config[1].ports["kong"] # fs[m].config[1].ports["kong"]
        /\ fs[n].compose[1].host_ports["kong"] # fs[m].compose[1].host_ports["kong"]
        /\ fs[n].kong = fs[m].kong

\* C31: the topology of every rendered project has one service block for
\* each of the ten service names; the host side of the port mapping of the
\* block of service s is the port the config holds for s, and it is the port
\* the config holds for no other service.
C31_BlocksUseOwnPorts ==
    \A n \in Names :
        Rendered(n) =>
            LET ports  == fs[n].config[1].ports
                blocks == fs[n].compose[1].host_ports
            IN  /\ DOMAIN blocks =
                       {"studio", "kong", "auth", "rest", "realtime", "storage",
                        "meta", "functions", "analytics", "vector"}
                /\ \A s \in DOMAIN blocks :
                       /\ blocks[s] = ports[s]
                       /\ \A t \in DOMAIN ports \ {s} : blocks[s] # ports[t]

NotLoadable(root, n) == ~HasConfig(root, n) \/ ~Loads(root[n].config[1])

\* C33: a status call for a project whose config file is absent and one for
\* a project whose config file is malformed end the same way, as project
\* not found: the web endpoint answers 404 with 'Project not found', the CLI
\* reports that the project was not found.
C33_UnloadableIsNotFound ==
    [][(last'.op \in {"status", "status_cli"} /\ NotLoadable(fs, last'.name)) =>
          /\ ~last'.ok
          /\ last'.err = <<"Project not found">>
          /\ last'.op = "status" => last'.outcome = "404"
      ]_vars

\* the web endpoint has answered 500 for a project with a malformed config
C33_MalformedIs500 ==
    /\ last.op = "status" /\ last.outcome = "500"
    /\ HasConfig(fs, last.name) /\ ~Loads(fs[last.name].config[1])

\* the configs on disk that load
LoadedConfigs == {fs[n].config[1] : n \in {m \in Names : ~NotLoadable(fs, m)}}

OwnEntries(buffer, c) == SelectSeq(buffer, LAMBDA e : e.by = c)

IsPrefix(s, t) == Len(s) <= Len(t) /\ SubSeq(t, 1, Len(s)) = s

\* thread c is between the first log call and the end of its create call
MidCreate(c) == pc[c] \in {"log", "read"} /\ loc[c].written > 0

\* C35: every log call appends exactly one entry at the end of the buffer, a
\* snapshot returned by get_logs is not altered by later appends, and while
\* a create call runs no entry it wrote is removed or reordered, also when a
\* second create runs concurrently on the same generator.
C35_CreateKeepsItsEntries ==
    [][\A c \in Callers :
          /\ (pc[c] = "log" /\ loc'[c].written # loc[c].written) =>
                /\ Len(logs') = Len(logs) + 1
                /\ SubSeq(logs', 1, Len(logs)) = logs
                /\ logs'[Len(logs')].by = c
          /\ pc[c] # "read" => loc'[c].snapshot = loc[c].snapshot
          /\ MidCreate(c) => IsPrefix(OwnEntries(logs, c), OwnEntries(logs', c))
      ]_vars

\* the invocation of dialect d exited 0 during the last _run_compose call
ExitedZero(d) == ~lastRun.beh[d].raises /\ lastRun.beh[d].returncode = 0

\* the dialect attempted last by the last _run_compose call
LastTried == lastRun.tried[Len(lastRun.tried)]

\* C36: the runtime invocation returns exit code 0 exactly if an invocation
\* of an installed dialect exited 0, and then returns the streams of the
\* first dialect that did and invokes no further one; otherwise it returns
\* the exit code, stdout and stderr of the last dialect attempted, never one
\* dialect's stdout with another dialect's exit code or stderr.
C36_ResultOfOneDialect ==
    (lastRun.called /\ lastRun.tried # <<>>) =>
        /\ lastRun.rc = 0 <=>
              \E i \in 1..Len(lastRun.tried) : ExitedZero(lastRun.tried[i])
        /\ lastRun.rc = 0 =>
              /\ ExitedZero(LastTried)
              /\ \A i \in 1..(Len(lastRun.tried) - 1) :
                    ~ExitedZero(lastRun.tried[i])
              /\ lastRun.out = lastRun.beh[LastTried].stdout
              /\ lastRun.err = lastRun.beh[LastTried].stderr
        /\ lastRun.rc # 0 =>
              /\ lastRun.tried = CommandList(lastRun.inst)
              /\ IF lastRun.beh[LastTried].raises
                 THEN /\ lastRun.rc = 1
                      /\ lastRun.out = <<>>
                      /\ lastRun.err = lastRun.beh[LastTried].exc
                 ELSE /\ lastRun.rc = lastRun.beh[LastTried].returncode
                      /\ lastRun.out = lastRun.beh[LastTried].stdout
                      /\ lastRun.err = lastRun.beh[LastTried].stderr

\* C37: delete(name) removes only the directory of the project called
\* name: for every name passed, the empty string and names with path
\* components included, the directory and files of every other project
\* under the projects root are unchanged by the call.
C37_DeleteTouchesOnlyNamed ==
    [][last'.op = "delete" =>
          \A n \in Names : n # last'.name => fs'[n] = fs[n]]_vars

\* C38: in every state reached by completed create, start, stop and delete
\* calls, failed creates included, every directory under the projects root
\* holds a persisted config, a topology file and a routing file.
C38_DirectoriesAreComplete ==
    \A n \in Names :
        PathExists(fs, n) =>
            /\ fs[n].config # NoFile
            /\ fs[n].compose # NoFile
            /\ fs[n].kong # NoFile

\* the find_available_ports call has returned or raised
ProbeEnded == pc[1] \in {"returned", "raised"}

\* C39: port allocation always terminates: each service's probe loop ends
\* after at most ProbeLimit + 1 bind attempts, the call returns the ports or
\* raises port exhaustion, as find_available_ports gives them, and no probe
\* socket is open by then; it ends also when every port of a window is held.
C39_AllocationTerminates ==
    /\ [](/\ loc[1].attempts <= ProbeLimit + 1
          /\ loc[1].open \in {0, 1}
          /\ ProbeEnded =>
                /\ loc[1].open = 0
                /\ LET r == find_available_ports(BasePorts, occupied)
                   IN  /\ r.raised = (pc[1] = "raised")
                       /\ r.ports = loc[1].ports
                       /\ r.service = loc[1].service)
    /\ <>ProbeEnded

\* the call has raised after it tried every port of a held window
C39_Witness ==
    /\ pc[1] = "raised" /\ loc[1].attempts = ProbeLimit + 1 /\ loc[1].open = 0
    /\ \A p \in BasePorts[loc[1].service]..(BasePorts[loc[1].service] + ProbeLimit) :
          Held(p, occupied)

---------------------------------------------------------------------------
(* Properties of port allocation *)

PairwiseDistinct(ports) ==
    \A s, t \in DOMAIN ports : s # t => ports[s] # ports[t]

\* C3 (as claimed): the ports map of every persisted config is pairwise
\* distinct: no two services are assigned the same port number.
C3_PersistedPortsDistinct ==
    \A n \in Names :
        fs[n].config # NoFile => PairwiseDistinct(fs[n].config[1].ports)

\* C4: for each service, the port returned is the smallest port p >= base
\* that is free on the host: p itself is free (the bind succeeded), every
\* port from base up to p - 1 is held, and the answer is fixed by the
\* service's own base port and the host's ports alone, whatever the other
\* services were given.
C4_SmallestFreePort ==
    (lastAlloc.called /\ ~lastAlloc.raised) =>
        /\ DOMAIN lastAlloc.ports = Services
        /\ \A s \in Services :
             LET p == lastAlloc.ports[s]
             IN  /\ p >= BasePorts[s]
                 /\ ~Held(p, lastAlloc.occ)
                 /\ \A q \in BasePorts[s]..(p - 1) : Held(q, lastAlloc.occ)

\* C4 witness: an allocation that had to probe upward: studio's base port
\* is held and the next one is free, kong is pushed up to meta's base port.
C4_Witness ==
    /\ lastAlloc.called /\ ~lastAlloc.raised
    /\ lastAlloc.ports["studio"] = 3001
    /\ lastAlloc.ports["kong"] = 8080

\* C5 (as claimed): allocation fails exactly when the 100 ports
\* base..base+99 of some service are all held, and a returned port lies in
\* [base, base+99].
C5_WindowOf100 ==
    lastAlloc.called =>
        /\ lastAlloc.raised <=> \E s \in Services : WindowHeld(s, lastAlloc.occ, 99)
        /\ ~lastAlloc.raised =>
             \A s \in Services : lastAlloc.ports[s] <= BasePorts[s] + 99

\* C5 (amended): allocation fails exactly when the 101 ports base..base+100
\* of some service are all held, and then names the first such service in
\* create's order of services; a returned port lies in [base, base+100], so
\* base+100 is probed and can be returned, and base+101 never is.
C5_WindowOf101 ==
    lastAlloc.called =>
        /\ lastAlloc.raised <=> \E s \in Services : WindowHeld(s, lastAlloc.occ, 100)
        /\ lastAlloc.raised =>
             \E i \in 1..Len(ServiceOrder) :
                /\ lastAlloc.service = ServiceOrder[i]
                /\ WindowHeld(ServiceOrder[i], lastAlloc.occ, 100)
                /\ \A j \in 1..(i - 1) : ~WindowHeld(ServiceOrder[j], lastAlloc.occ, 100)
        /\ ~lastAlloc.raised =>
             \A s \in Services :
                /\ lastAlloc.ports[s] >= BasePorts[s]
                /\ lastAlloc.ports[s] <= BasePorts[s] + 100

\* C5 witness: the ports base..base+99 of studio are held and the call
\* returns base+100 for it.
C5_Witness ==
    /\ lastAlloc.called /\ ~lastAlloc.raised
    /\ WindowHeld("studio", lastAlloc.occ, 99)
    /\ lastAlloc.ports["studio"] = 3100

---------------------------------------------------------------------------
(* Properties of the runtime bridge *)

\* C9 (as claimed): with both dialects installed, when the primary command
\* runs and exits non-zero the legacy command is not invoked and the
\* primary's (exit_code, stdout, stderr) is the result.
C9_NoFallbackOnNonZeroExit ==
    ( /\ lastRun.called
      /\ lastRun.inst = Dialects
      /\ ~lastRun.beh[Primary].raises
      /\ lastRun.beh[Primary].returncode # 0 ) =>
        /\ lastRun.tried = <<Primary>>
        /\ lastRun.rc  = lastRun.beh[Primary].returncode
        /\ lastRun.out = lastRun.beh[Primary].stdout
        /\ lastRun.err = lastRun.beh[Primary].stderr

\* C10 (as claimed): the outcome of a call on a host with neither dialect
\* installed can be told apart from a command that ran and exited non-zero:
\* no call that ran a command returns what the call that ran none returns.
C10_UnavailableDistinguished ==
    (lastRun.called /\ lastRun.tried # <<>>) =>
        <<lastRun.rc, lastRun.out, lastRun.err>> # <<1, <<>>, NotFoundMsg>>

===========================================================================
